---- MODULE Spec2Model ----
(***************************************************************************)
(* A model of the Autoflow plugin (src/main.ts): the flow parser, the      *)
(* flow runner (runSteps), the autorun scheduler (runStartupFlows), the    *)
(* lastRun rewrite, the error log, and the search step with its embedding  *)
(* cache and ranking.                                                      *)
(*                                                                         *)
(* A document is a sequence of lines.  A line is a record that keeps what  *)
(* the code's regular expressions can tell apart:                          *)
(*   kind   "blank" | "comment" | "word" (no colon) | "kv" (key: value)    *)
(*   key    the key (or the whole text of a "word" line)                   *)
(*   val    the value with one leading/trailing double quote removed       *)
(*   quoted whether the raw value carried double quotes                    *)
(*   form   "plain"  key: value   at column 0                              *)
(*          "indent" the same with leading white space                     *)
(*          "dash"   - key: value                                          *)
(*          "spaced" key : value  (white space before the colon)           *)
(***************************************************************************)
EXTENDS Integers, Sequences, FiniteSets, TLC

\* ------------------------------------------------------------------ values

\* JavaScript's undefined, and the boolean true the parser makes of "true".
Undef == "<undefined>"
BoolTrue == "<true>"

\* JavaScript truthiness of a string-or-undefined value.
Truthy(v) == v \notin {Undef, ""}

KV(key, val) ==
  [kind |-> "kv", key |-> key, val |-> val, quoted |-> FALSE, form |-> "plain"]
KVForm(key, val, form) ==
  [kind |-> "kv", key |-> key, val |-> val, quoted |-> FALSE, form |-> form]
KVQuoted(key, val) ==
  [kind |-> "kv", key |-> key, val |-> val, quoted |-> TRUE, form |-> "plain"]
Word(w) ==
  [kind |-> "word", key |-> w, val |-> "", quoted |-> FALSE, form |-> "plain"]
BlankLine ==
  [kind |-> "blank", key |-> "", val |-> "", quoted |-> FALSE, form |-> "plain"]
CommentLine ==
  [kind |-> "comment", key |-> "", val |-> "", quoted |-> FALSE, form |-> "plain"]

\* ------------------------------------------------------------ flow parser

TopKeys == {"name", "description", "autorun", "lastRun"}
StepKeys == {"type", "sourceFolder", "query", "prompt", "promptFile", "targetFile"}

EmptyTop == [k \in TopKeys |-> Undef]
EmptyStep == [k \in StepKeys |-> Undef]

\* lines.filter(l => l.length > 0 && !l.startsWith('<!--'))
NonEmptyLines(text) ==
  SelectSeq(text, LAMBDA l : l.kind \notin {"blank", "comment"})

\* kvRegex = /^-?\s*([A-Za-z0-9_]+)\s*:\s*(.*)$/ on the trimmed line
KvMatch(line) == line.kind = "kv"

\* /^steps\s*:/ on the trimmed line: no leading dash
IsStepsLine(line) ==
  line.kind = "kv" /\ line.key = "steps" /\ line.form # "dash"

\* line.startsWith('type') on the trimmed line
StartsWithType(line) ==
  line.key = "type" /\ line.kind \in {"kv", "word"} /\ line.form # "dash"

ParseError(msg) ==
  [err |-> msg, name |-> Undef, description |-> Undef, steps |-> <<>>,
   autorun |-> Undef, lastRun |-> Undef]

\* The loop over the top-level keys, up to the steps: line.
RECURSIVE ParseTopLevel(_, _, _)
ParseTopLevel(nonEmpty, idx, topLevel) ==
  IF idx > Len(nonEmpty)
  THEN [err |-> "none", idx |-> idx, topLevel |-> topLevel]
  ELSE LET line == nonEmpty[idx] IN
    IF IsStepsLine(line)
    THEN [err |-> "none", idx |-> idx + 1, topLevel |-> topLevel]
    ELSE IF ~KvMatch(line)
    THEN [err |-> "Invalid top-level line", idx |-> idx, topLevel |-> topLevel]
    ELSE ParseTopLevel(nonEmpty, idx + 1,
           IF line.key \in TopKeys
           THEN [topLevel EXCEPT ![line.key] = line.val]
           ELSE topLevel)

\* The loop over the step lines.  cur.open says whether currentStep is set.
RECURSIVE ParseStepLines(_, _, _, _)
ParseStepLines(nonEmpty, idx, steps, cur) ==
  IF idx > Len(nonEmpty)
  THEN [err |-> "none",
        steps |-> IF cur.open THEN Append(steps, cur.step) ELSE steps]
  ELSE LET line == nonEmpty[idx] IN
    IF StartsWithType(line)
    THEN IF ~KvMatch(line)
         THEN [err |-> "Invalid step type line", steps |-> steps]
         ELSE ParseStepLines(nonEmpty, idx + 1,
                IF cur.open THEN Append(steps, cur.step) ELSE steps,
                [open |-> TRUE, step |-> [EmptyStep EXCEPT !["type"] = line.val]])
    ELSE IF ~cur.open
         THEN [err |-> "Parameter specified before step type", steps |-> steps]
         ELSE IF ~KvMatch(line)
         THEN [err |-> "Invalid parameter line", steps |-> steps]
         ELSE ParseStepLines(nonEmpty, idx + 1, steps,
                IF line.key \in StepKeys
                THEN [cur EXCEPT !.step[line.key] = line.val]
                ELSE cur)

\* app.vault.getAbstractFileByPath(path): "file", "folder" or "none", read
\* from kinds, a function from the paths that exist to "file" or "folder".
getAbstractFileByPath(kinds, path) ==
  IF path \in DOMAIN kinds THEN kinds[path] ELSE "none"

\* The validation of one transform step.
TransformError(step, kinds) ==
  IF Truthy(step["prompt"]) /\ Truthy(step["promptFile"])
  THEN "Transform step cannot have both prompt and promptFile."
  ELSE IF ~Truthy(step["prompt"]) /\ ~Truthy(step["promptFile"])
  THEN "Transform step must have either prompt or promptFile."
  ELSE IF Truthy(step["promptFile"]) /\ getAbstractFileByPath(kinds, step["promptFile"]) = "none"
  THEN "Prompt file not found"
  ELSE IF Truthy(step["promptFile"]) /\ getAbstractFileByPath(kinds, step["promptFile"]) # "file"
  THEN "Prompt file path is a folder"
  ELSE "none"

\* for (const step of steps): the first error found, in step order.
RECURSIVE ValidateSteps(_, _, _)
ValidateSteps(steps, i, kinds) ==
  IF i > Len(steps) THEN "none"
  ELSE IF steps[i]["type"] = "transform" /\ TransformError(steps[i], kinds) # "none"
  THEN TransformError(steps[i], kinds)
  ELSE ValidateSteps(steps, i + 1, kinds)

parseSimpleFlowDefinition(text, kinds) ==
  LET nonEmpty == NonEmptyLines(text) IN
  IF Len(nonEmpty) = 0 THEN ParseError("Empty flow definition.")
  ELSE IF ~(nonEmpty[1].kind = "word" /\ nonEmpty[1].key = "autoflow")
  THEN ParseError("Not a simple Autoflow definition.")
  ELSE LET top == ParseTopLevel(nonEmpty, 2, EmptyTop) IN
    IF top.err # "none" THEN ParseError(top.err)
    ELSE LET body == ParseStepLines(nonEmpty, top.idx, <<>>,
                                    [open |-> FALSE, step |-> EmptyStep]) IN
      IF body.err # "none" THEN ParseError(body.err)
      ELSE IF ValidateSteps(body.steps, 1, kinds) # "none"
      THEN ParseError(ValidateSteps(body.steps, 1, kinds))
      ELSE IF ~Truthy(top.topLevel["name"]) \/ ~Truthy(top.topLevel["description"])
      THEN ParseError("Simple flow must have name and description.")
      ELSE IF Len(body.steps) = 0
      THEN ParseError("Simple flow must include at least one step.")
      ELSE [err |-> "none",
            name |-> top.topLevel["name"],
            description |-> top.topLevel["description"],
            steps |-> body.steps,
            autorun |-> IF top.topLevel["autorun"] = "true"
                        THEN BoolTrue ELSE top.topLevel["autorun"],
            lastRun |-> top.topLevel["lastRun"]]

parseFlowDefinition(text, kinds) == parseSimpleFlowDefinition(text, kinds)

\* ------------------------------------------------------------------ dates

\* getLocalYYYYMMDD(new Date()) on the day-th day of the model's calendar.
getLocalYYYYMMDD(day) == "2025-01-0" \o ToString(day)

\* ------------------------------------------------------ the lastRun rewrite

\* /^lastRun:\s*.*$/m matches a line that starts, at column 0, with lastRun:
MatchesLastRunRegex(line) ==
  line.kind = "kv" /\ line.key = "lastRun" /\ line.form = "plain"

\* /^(steps:.*)$/m matches a line that starts, at column 0, with steps:
MatchesStepsRegex(line) ==
  line.kind = "kv" /\ line.key = "steps" /\ line.form = "plain"

\* The first of the line indices hits of text (the leftmost match), or
\* Len(text) + 1 when there is none.
FirstMatch(text, hits) ==
  IF hits = {} THEN Len(text) + 1
  ELSE CHOOSE k \in hits : \A m \in hits : k <= m

IsNotBlank(line) == line.kind # "blank"

\* The last line of the match of /^lastRun:\s*.*$/m that starts at line i.
\* After a value \s* stops on the line; after an empty value the greedy \s*
\* runs over the line break and over every blank line that follows, and .*
\* then takes the next line that is not blank.
LastRunMatchEnd(text, i) ==
  IF text[i].val # "" \/ text[i].quoted THEN i
  ELSE LET j == FirstMatch(text, {k \in (i + 1)..Len(text) : IsNotBlank(text[k])}) IN
       IF j > Len(text) THEN Len(text) ELSE j

\* content.replace(lastRunRegex, newLastRun), or the insertion before the
\* first steps: line: the new content of the document.
RewriteLastRun(content, newDate) ==
  LET newLastRun == KV("lastRun", newDate)
      i == FirstMatch(content, {k \in 1..Len(content) : MatchesLastRunRegex(content[k])})
      s == FirstMatch(content, {k \in 1..Len(content) : MatchesStepsRegex(content[k])})
  IN IF i <= Len(content)
     THEN SubSeq(content, 1, i - 1) \o <<newLastRun>>
          \o SubSeq(content, LastRunMatchEnd(content, i) + 1, Len(content))
     ELSE IF s <= Len(content)
     THEN SubSeq(content, 1, s - 1) \o <<newLastRun>>
          \o SubSeq(content, s, Len(content))
     ELSE content

\* ------------------------------------------------------------------ bounds

\* Manual runs (picks from the flow picker) that may be in flight together.
MaxManual == 2
\* Plugin loads, each with its startup scan.
MaxScans == 2
\* Days of the model's calendar.
MaxDay == 2

\* --------------------------------------------------- the runner: its state

VARIABLES
  clock,      \* the current local day, 1..MaxDay
  vault,      \* path -> [exists, text]: the flow documents of the vault
  settings,   \* this.settings: autorunFlows and showFlowConfirmation
  dataFile,   \* what saveData last wrote (loadData reads it)
  runs,       \* proc -> the state of its call of runSteps; proc 0 is the scheduler's
  scan,       \* the state of runStartupFlows
  errorLog,   \* the number of entries appended to logs/latest.log
  schedRuns   \* path -> day -> scheduled runs of the flow started on that day

runVars == <<clock, vault, settings, dataFile, runs, scan, errorLog, schedRuns>>

\* The search step and the index rebuild: their state (see below).
VARIABLES
  docs,            \* path -> [content, mtime]: the candidate documents
  embeddingIndex,  \* this.embeddingIndex: path -> entry
  indexFile,       \* embedding-index.json as last written
  ops,             \* op -> the state of its executeSearchStep or rebuildIndexForFolder
  edits            \* the number of document modifications so far

searchVars == <<docs, embeddingIndex, indexFile, ops, edits>>

\* The ranking of a search step, on its own (see below).
VARIABLES
  fileEmbeddings,  \* the list the loop of executeSearchStep has built
  context          \* the execution context after the step

rankVars == <<fileEmbeddings, context>>

\* The parser applied to a text.
VARIABLES
  inputText,       \* the text handed to parseFlowDefinition, line by line
  definition       \* what parseFlowDefinition returned for it

parseVars == <<inputText, definition>>

\* The three step kinds executed by one call of runSteps.
VARIABLES
  vaultFiles,      \* path -> [exists, content]: the documents of the vault
  folders,         \* the folders of the vault that exist
  ctx,             \* the context object of the call, key by key
  flow,            \* the steps the call has executed, and how it stands
  calls            \* the calls made to the provider: completions, embeddings

execVars == <<vaultFiles, folders, ctx, flow, calls>>

\* A pure function of the plugin applied to its arguments.
VARIABLES
  callArgs,        \* the function called and its arguments
  callResult       \* what it returned

callVars == <<callArgs, callResult>>

\* The status bar of the application window.
VARIABLES
  statusBar,       \* this.statusBar: the creating run of the item it refers to
  statusBarItems   \* run -> the number of its items the status bar shows

barVars == <<statusBar, statusBarItems>>

\* onload's call of loadEmbeddingIndex.
VARIABLES
  indexLoad        \* pc: where the call is, "exists", "read" or "done"

loadVars == <<indexLoad>>

vars == <<runVars, searchVars, rankVars, parseVars, execVars, callVars, barVars, loadVars>>

FlowPaths == {"A.md", "B.md"}
Manual == 1..MaxManual
Procs == 0..MaxManual
Days == 1..MaxDay

StepLines(type, key, val) == <<KV("type", type), KVForm(key, val, "dash")>>
ThreeSteps ==
  StepLines("search", "sourceFolder", "Notes")
  \o StepLines("transform", "prompt", "Summarise")
  \o StepLines("write", "targetFile", "Out.md")
OneStep == StepLines("write", "targetFile", "Out.md")

Header == <<Word("autoflow"), KV("name", "Flow"), KVQuoted("description", "Does it")>>

\* The flow documents the vault starts with.
DocPlain == Header \o <<KV("autorun", "true"), KV("steps", "")>> \o ThreeSteps
DocDated ==
  Header \o <<KV("autorun", "true"), KV("lastRun", getLocalYYYYMMDD(1)), KV("steps", "")>>
  \o OneStep
DocEmptyLastRun ==
  Header \o <<KV("autorun", "daily"), KV("lastRun", ""), KV("steps", "")>> \o OneStep
DocIndented ==
  Header \o <<KV("autorun", "daily"), KVForm("steps", "", "indent")>> \o OneStep
DocNoAutorun == Header \o <<BlankLine, KV("steps", "")>> \o OneStep
DocNotAFlow == <<Word("Notes"), KV("name", "Flow")>>

\* The paths of the vault's documents and what each is, for the parser.
VaultKinds(v) == [p \in {q \in DOMAIN v : v[q].exists} |-> "file"]

IdleRun ==
  [pc |-> "idle", file |-> Undef, filePath |-> Undef, isAutorun |-> FALSE,
   def |-> ParseError("none"), i |-> 1, executed |-> <<>>, failedAt |-> 0,
   registered |-> FALSE, noticeFinished |-> FALSE, noticeFailed |-> FALSE,
   logged |-> FALSE, threw |-> FALSE, noticeInvalid |-> FALSE]

IdleScan ==
  [pc |-> "off", n |-> 0, idx |-> 1, today |-> 1, attempted |-> <<>>, left |-> 0,
   invalid |-> <<>>]

\* DEFAULT_SETTINGS, as far as the runner reads them.
DEFAULT_SETTINGS == [autorunFlows |-> <<>>, showFlowConfirmation |-> FALSE]

File(text) == [exists |-> TRUE, text |-> text]
NoFile == [exists |-> FALSE, text |-> <<>>]

\* The vaults a session starts with.
SessionVaults ==
  {[p \in FlowPaths |-> IF p = "A.md" THEN File(a) ELSE File(DocNoAutorun)] :
     a \in {DocPlain, DocIndented, DocNotAFlow}}

\* A session starts from any duplicate-free registry that earlier sessions
\* can have saved.
SessionData ==
  [autorunFlows : {<<>>, <<"A.md">>}, showFlowConfirmation : BOOLEAN]

\* The vaults the scheduler starts with: two registered paths, the second
\* document may have been deleted or rewritten since it was registered.
SchedVaults ==
  {[p \in FlowPaths |-> IF p = "A.md" THEN File(a) ELSE b] :
     a \in {DocPlain, DocDated, DocEmptyLastRun, DocIndented},
     b \in {File(DocPlain), File(DocNoAutorun), File(DocNotAFlow), NoFile}}

SchedData == [autorunFlows |-> <<"A.md", "B.md">>, showFlowConfirmation |-> FALSE]

\* ------------------------------------------------- the runner: its actions

Includes(seq, x) == \E k \in 1..Len(seq) : seq[k] = x

\* runSteps: if (filePath && definition.autorun && !isAutorun)
ShouldRegister(def, filePath, isAutorun) ==
  filePath # Undef /\ Truthy(def.autorun) /\ ~isAutorun

\* The push without the includes test.
RegisterPathUnchecked(autorunFlows, filePath) == Append(autorunFlows, filePath)

\* runSteps: if (!autorunFlows.includes(filePath)) autorunFlows.push(filePath)
RegisterPath(autorunFlows, filePath) ==
  IF Includes(autorunFlows, filePath) THEN autorunFlows
  ELSE Append(autorunFlows, filePath)

\* The filePath FlowSummaryModal passes to runSteps: flowDefinition.filePath,
\* a property that pickAndRunFlow never sets on the parsed definition.
ModalFilePath(file) == Undef

\* The filePath pickAndRunFlow passes to runSteps: file.path.
PickerFilePath(file) == file

\* The call runSteps(definition, filePath, isAutorun) up to its first await:
\* the run's new state.  The registration is synchronous; saveSettings is
\* awaited only when the path was pushed.  A parsed definition has at least
\* one step, so the for loop is entered.
BeginRunSteps(file, def, filePath, isAutorun, autorunFlows) ==
  LET push == ShouldRegister(def, filePath, isAutorun)
              /\ RegisterPath(autorunFlows, filePath) # autorunFlows
  IN [IdleRun EXCEPT !.pc = IF push THEN "saveSettings" ELSE "steps",
                     !.file = file, !.filePath = filePath,
                     !.isAutorun = isAutorun, !.def = def,
                     !.registered = push]

\* The registry after the same call.
RegistryAfterBegin(def, filePath, isAutorun, autorunFlows) ==
  IF ShouldRegister(def, filePath, isAutorun)
  THEN RegisterPath(autorunFlows, filePath) ELSE autorunFlows

\* The executor can fail in a step it dispatches; the switch has no default,
\* so a step of another type does nothing.
CanThrow(step) == step["type"] \in {"search", "transform", "write"}

\* After the for loop: the success notice, then the lastRun rewrite of a
\* scheduled run, else the finally block.
AfterLoop(run) ==
  [run EXCEPT !.noticeFinished = TRUE,
              !.pc = IF run.filePath # Undef /\ run.isAutorun
                     THEN "updateLastRun" ELSE "done"]

\* One step of the for loop returned.
StepReturned(run) ==
  LET next == [run EXCEPT !.executed = Append(@, run.i), !.i = @ + 1] IN
  IF next.i > Len(run.def.steps) THEN AfterLoop(next) ELSE next

\* A swallowed failure: the loop goes on with the next step.
StepThrewContinues(run) ==
  LET next == [run EXCEPT !.executed = Append(@, run.i), !.i = @ + 1,
                          !.failedAt = IF @ = 0 THEN run.i ELSE @] IN
  IF next.i > Len(run.def.steps) THEN AfterLoop(next) ELSE next

\* One step of the for loop threw: the catch block, up to await logError.
StepThrew(run) ==
  [run EXCEPT !.executed = Append(@, run.i), !.failedAt = run.i,
              !.noticeFailed = TRUE, !.pc = "logError"]

\* Where a call of runSteps is between its addStatusBarItem and the end of
\* its finally block.
InTry == {"steps", "updateLastRun", "logError"}

\* this.statusBar before the first run: no item.
NoItem == [run |-> 0, shown |-> FALSE]

\* runSteps, for the status bar, in a step of run r: this.statusBar =
\* this.addStatusBarItem() once the registration is over, and
\* this.statusBar.remove() in the finally block, on whatever item the field
\* refers to then; removing an item twice does nothing.  No other item can
\* ever be removed, so the items are kept as counts by creating run.
StatusBarTurn(r) ==
  LET began == runs[r].pc \notin InTry /\ runs'[r].pc \in InTry
      ended == runs[r].pc \in InTry /\ runs'[r].pc = "done"
  IN /\ statusBarItems' =
          IF began THEN [statusBarItems EXCEPT ![r] = @ + 1]
          ELSE IF ended /\ statusBar.shown
          THEN [statusBarItems EXCEPT ![statusBar.run] = @ - 1]
          ELSE statusBarItems
     /\ statusBar' = IF began THEN [run |-> r, shown |-> TRUE]
                     ELSE IF ended THEN [statusBar EXCEPT !.shown = FALSE]
                     ELSE statusBar

\* onload: loadSettings, then runStartupFlows is called (not awaited).
LoadPlugin ==
  /\ settings' = dataFile
  /\ runs' = [r \in Procs |-> IdleRun]
  /\ scan' = [IdleScan EXCEPT !.pc = "loop", !.n = scan.n + 1, !.today = clock]
  /\ statusBar' = NoItem
  /\ statusBarItems' = [r \in Procs |-> 0]
  /\ UNCHANGED <<callVars, loadVars, parseVars, execVars, searchVars, rankVars, clock, vault, dataFile, errorLog, schedRuns>>

\* The plugin is loaded for the first time.
Onload ==
  /\ scan.pc = "off"
  /\ LoadPlugin

\* The application is started again after the scan and the runs have ended.
Reload ==
  /\ scan.pc \in {"done", "aborted"}
  /\ scan.n < MaxScans
  /\ \A r \in Procs : runs[r].pc \in {"idle", "done"}
  /\ LoadPlugin

\* Midnight passes.
NewDay ==
  /\ clock < MaxDay
  /\ clock' = clock + 1
  /\ UNCHANGED <<callVars, barVars, loadVars, parseVars, execVars, searchVars, rankVars, vault, settings, dataFile, runs, scan, errorLog, schedRuns>>

\* A flow that parses without steps: a failure that goes unnoticed.
ParseFailedNever(def) == FALSE

\* parseFlowDefinition threw: the catch blocks of pickAndRunFlow and of
\* runStartupFlows show the notice and leave the document alone.
ParseFailed(def) == def.err # "none"

\* pickAndRunFlow's callback: the user picks the document at path p.  The
\* manual runs are interchangeable, so they take their numbers in order.
PickAndRunFlow(r, p) ==
  /\ scan.n >= 1
  /\ runs[r].pc = "idle"
  /\ \A q \in Manual : q < r => runs[q].pc # "idle"
  /\ vault[p].exists
  /\ LET def == parseFlowDefinition(vault[p].text, VaultKinds(vault)) IN
     IF ParseFailed(def)
     THEN /\ runs' = [runs EXCEPT ![r] = [IdleRun EXCEPT !.pc = "done", !.file = p, !.def = def,
                                                          !.noticeInvalid = TRUE]]
          /\ UNCHANGED settings
     ELSE IF settings.showFlowConfirmation
     THEN /\ runs' = [runs EXCEPT ![r] = [IdleRun EXCEPT !.pc = "modal", !.file = p, !.def = def]]
          /\ UNCHANGED settings
     ELSE /\ runs' = [runs EXCEPT ![r] =
                 BeginRunSteps(p, def, PickerFilePath(p), FALSE, settings.autorunFlows)]
          /\ settings' = [settings EXCEPT !.autorunFlows =
                 RegistryAfterBegin(def, PickerFilePath(p), FALSE, @)]
  /\ StatusBarTurn(r)
  /\ UNCHANGED <<callVars, loadVars, parseVars, execVars, searchVars, rankVars, clock, vault, dataFile, scan, errorLog, schedRuns>>

\* FlowSummaryModal: the user clicks Run Flow.
ModalRunFlow(r) ==
  /\ runs[r].pc = "modal"
  /\ LET file == runs[r].file
         def == runs[r].def
     IN /\ runs' = [runs EXCEPT ![r] =
               BeginRunSteps(file, def, ModalFilePath(file), FALSE, settings.autorunFlows)]
        /\ settings' = [settings EXCEPT !.autorunFlows =
               RegistryAfterBegin(def, ModalFilePath(file), FALSE, @)]
  /\ StatusBarTurn(r)
  /\ UNCHANGED <<callVars, loadVars, parseVars, execVars, searchVars, rankVars, clock, vault, dataFile, scan, errorLog, schedRuns>>

\* runSteps: await this.saveSettings() resolves or rejects.  It is outside
\* the try block: a rejection leaves runSteps at once.
SaveSettings(r, ok) ==
  /\ runs[r].pc = "saveSettings"
  /\ IF ok
     THEN /\ dataFile' = settings
          /\ runs' = [runs EXCEPT ![r].pc = "steps"]
     ELSE /\ dataFile' = dataFile
          /\ runs' = [runs EXCEPT ![r].pc = "done", ![r].threw = TRUE]
  /\ StatusBarTurn(r)
  /\ UNCHANGED <<callVars, loadVars, parseVars, execVars, searchVars, rankVars, clock, vault, settings, scan, errorLog, schedRuns>>

\* runSteps: the step at position i is executed and returns or throws.
ExecuteStep(r, ok) ==
  /\ runs[r].pc = "steps"
  /\ ok \/ CanThrow(runs[r].def.steps[runs[r].i])
  /\ runs' = [runs EXCEPT ![r] = IF ok THEN StepReturned(@) ELSE StepThrew(@)]
  /\ StatusBarTurn(r)
  /\ UNCHANGED <<callVars, loadVars, parseVars, execVars, searchVars, rankVars, clock, vault, settings, dataFile, scan, errorLog, schedRuns>>

\* updateLastRunInFile(filePath, getLocalYYYYMMDD(new Date())), inside the
\* try block: a storage failure lands in the catch block.
UpdateLastRunInFile(r, ok) ==
  /\ runs[r].pc = "updateLastRun"
  /\ LET path == runs[r].filePath IN
     IF ~vault[path].exists
     THEN /\ ok
          /\ runs' = [runs EXCEPT ![r].pc = "done"]
          /\ UNCHANGED vault
     ELSE IF ok
     THEN /\ vault' = [vault EXCEPT ![path].text =
                          RewriteLastRun(@, getLocalYYYYMMDD(clock))]
          /\ runs' = [runs EXCEPT ![r].pc = "done"]
     ELSE /\ runs' = [runs EXCEPT ![r].pc = "logError", ![r].noticeFailed = TRUE]
          /\ UNCHANGED vault
  /\ StatusBarTurn(r)
  /\ UNCHANGED <<callVars, loadVars, parseVars, execVars, searchVars, rankVars, clock, settings, dataFile, scan, errorLog, schedRuns>>

\* runSteps' catch block: await this.logError(error) appends to the log, or
\* the storage fails and the exception leaves runSteps (after finally).
LogError(r, ok) ==
  /\ runs[r].pc = "logError"
  /\ runs' = [runs EXCEPT ![r].pc = "done", ![r].logged = ok, ![r].threw = ~ok]
  /\ errorLog' = IF ok THEN errorLog + 1 ELSE errorLog
  /\ StatusBarTurn(r)
  /\ UNCHANGED <<callVars, loadVars, parseVars, execVars, searchVars, rankVars, clock, vault, settings, dataFile, scan, schedRuns>>

\* ---------------------------------------------- the scheduler: its actions

\* definition.autorun === 'daily' || definition.autorun === true
IsDue(def) == def.autorun \in {"daily", BoolTrue}

\* runStartupFlows has stopped, with paths of the registry left unattempted.
ScanEnded(pc) ==
  [scan EXCEPT !.pc = pc,
               !.left = Len(settings.autorunFlows) - Len(scan.attempted)]

\* One turn of the for loop of runStartupFlows, up to its call of runSteps.
\* The array is iterated live: a path pushed meanwhile is visited too.
\* readOk: whether await cachedRead(file) resolves; it is outside any try.
ScanNext(readOk) ==
  /\ scan.pc = "loop"
  /\ IF scan.idx > Len(settings.autorunFlows)
     THEN /\ readOk
          /\ scan' = ScanEnded("done")
          /\ UNCHANGED <<runs, schedRuns>>
     ELSE LET path == settings.autorunFlows[scan.idx]
              seen == [scan EXCEPT !.attempted = Append(@, path)]
              skip == [seen EXCEPT !.idx = @ + 1]
              def == parseFlowDefinition(vault[path].text, VaultKinds(vault))
          IN IF ~vault[path].exists
             THEN /\ readOk
                  /\ scan' = skip
                  /\ UNCHANGED <<runs, schedRuns>>
             ELSE IF ~readOk
             THEN /\ scan' = [seen EXCEPT !.pc = "aborted",
                                !.left = Len(settings.autorunFlows) - Len(seen.attempted)]
                  /\ UNCHANGED <<runs, schedRuns>>
             ELSE IF ParseFailed(def)
             THEN /\ scan' = [skip EXCEPT !.invalid = Append(@, path)]
                  /\ UNCHANGED <<runs, schedRuns>>
             ELSE IF def.lastRun = getLocalYYYYMMDD(scan.today) \/ ~IsDue(def)
             THEN /\ scan' = skip
                  /\ UNCHANGED <<runs, schedRuns>>
             ELSE /\ scan' = [seen EXCEPT !.pc = "run"]
                  /\ runs' = [runs EXCEPT ![0] =
                        BeginRunSteps(path, def, path, TRUE, settings.autorunFlows)]
                  /\ schedRuns' = [schedRuns EXCEPT ![path][clock] = @ + 1]
  /\ StatusBarTurn(0)
  /\ UNCHANGED <<callVars, loadVars, parseVars, execVars, searchVars, rankVars, clock, vault, settings, dataFile, errorLog>>

\* await this.runSteps(definition, path, true) has settled: the loop goes
\* on, or the catch block of runStartupFlows starts its await logError(e).
ScanAfterRun ==
  /\ scan.pc = "run"
  /\ runs[0].pc = "done"
  /\ scan' = IF runs[0].threw THEN [scan EXCEPT !.pc = "catchLog"]
             ELSE [scan EXCEPT !.pc = "loop", !.idx = @ + 1]
  /\ runs' = [runs EXCEPT ![0] = IdleRun]
  /\ UNCHANGED <<callVars, barVars, loadVars, parseVars, execVars, searchVars, rankVars, clock, vault, settings, dataFile, errorLog, schedRuns>>

\* The catch block of runStartupFlows: await this.logError(e) resolves, or
\* rejects and leaves runStartupFlows.
ScanCatchLog(ok) ==
  /\ scan.pc = "catchLog"
  /\ IF ok
     THEN /\ scan' = [scan EXCEPT !.pc = "loop", !.idx = @ + 1]
          /\ errorLog' = errorLog + 1
     ELSE /\ scan' = ScanEnded("aborted")
          /\ UNCHANGED errorLog
  /\ UNCHANGED <<callVars, barVars, loadVars, parseVars, execVars, searchVars, rankVars, clock, vault, settings, dataFile, runs, schedRuns>>

\* One session of the plugin: the startup scan and the manual runs, interleaved
\* at their awaits.
SessionNext ==
  \/ Onload
  \/ \E r \in Manual, p \in FlowPaths : PickAndRunFlow(r, p)
  \/ \E r \in Manual : ModalRunFlow(r)
  \/ \E r \in Procs, ok \in BOOLEAN : SaveSettings(r, ok)
  \/ \E r \in Procs, ok \in BOOLEAN : ExecuteStep(r, ok)
  \/ \E r \in Procs, ok \in BOOLEAN : UpdateLastRunInFile(r, ok)
  \/ \E r \in Procs, ok \in BOOLEAN : LogError(r, ok)
  \/ \E ok \in BOOLEAN : ScanNext(ok)
  \/ ScanAfterRun
  \/ \E ok \in BOOLEAN : ScanCatchLog(ok)

\* The scheduler over several starts of the application and several days.
SchedNext ==
  \/ Onload
  \/ Reload
  \/ NewDay
  \/ \E ok \in BOOLEAN : ExecuteStep(0, ok)
  \/ \E ok \in BOOLEAN : UpdateLastRunInFile(0, ok)
  \/ \E ok \in BOOLEAN : LogError(0, ok)
  \/ \E ok \in BOOLEAN : ScanNext(ok)
  \/ ScanAfterRun
  \/ \E ok \in BOOLEAN : ScanCatchLog(ok)


\* ------------------------------------------------------------- similarity

\* A similarity is kept exactly, as num / sqrt(den2) with den2 > 0; the code
\* computes the same quotient in floating point.
Similarity(num, den2) == [num |-> num, den2 |-> den2]

RECURSIVE DotFrom(_, _, _)
DotFrom(vecA, vecB, i) ==
  IF i > Len(vecA) THEN 0 ELSE vecA[i] * vecB[i] + DotFrom(vecA, vecB, i + 1)

\* The length test after the magnitude test.
cosineSimilarityMagnitudeFirst(vecA, vecB) ==
  IF DotFrom(vecA, vecA, 1) = 0 \/ DotFrom(vecB, vecB, 1) = 0 THEN Similarity(0, 1)
  ELSE IF Len(vecA) # Len(vecB) THEN Similarity(-1, 1)
  ELSE Similarity(DotFrom(vecA, vecB, 1),
                  DotFrom(vecA, vecA, 1) * DotFrom(vecB, vecB, 1))

cosineSimilarity(vecA, vecB) ==
  IF Len(vecA) # Len(vecB) THEN Similarity(-1, 1)
  ELSE LET dotProduct == DotFrom(vecA, vecB, 1)
           magA2 == DotFrom(vecA, vecA, 1)
           magB2 == DotFrom(vecB, vecB, 1)
       IN IF magA2 = 0 \/ magB2 = 0 THEN Similarity(0, 1)
          ELSE Similarity(dotProduct, magA2 * magB2)

\* x < y for two similarities: t -> sign(t) * t * t is increasing.
SignedSquare(x, other) ==
  (IF x.num >= 0 THEN 1 ELSE -1) * x.num * x.num * other.den2
SimLess(x, y) == SignedSquare(x, y) < SignedSquare(y, x)

\* ---------------------------------------------------------------- ranking

TopN == 10

Min(a, b) == IF a <= b THEN a ELSE b

\* An ascending comparator, a - b.
ComesBeforeAscending(a, b) == SimLess(a.similarity, b.similarity)

\* The comparator (a, b) => b.similarity - a.similarity is negative: a is
\* sorted before b.
ComesBefore(a, b) == SimLess(b.similarity, a.similarity)

\* Array.prototype.sort is stable: an element is placed before the first
\* element it must come before, behind every element it ties with.
InsertSorted(sorted, x) ==
  LET firstAfter == {i \in 1..Len(sorted) : ComesBefore(x, sorted[i])}
      pos == IF firstAfter = {} THEN Len(sorted) + 1
             ELSE CHOOSE i \in firstAfter : \A j \in firstAfter : i <= j
  IN SubSeq(sorted, 1, pos - 1) \o <<x>> \o SubSeq(sorted, pos, Len(sorted))

RECURSIVE SortBySimilarity(_)
SortBySimilarity(list) ==
  IF list = <<>> THEN <<>>
  ELSE InsertSorted(SortBySimilarity(SubSeq(list, 1, Len(list) - 1)), list[Len(list)])

\* slice(0, 9): one result too few.
SliceTopShort(sorted) == SubSeq(sorted, 1, Min(TopN - 1, Len(sorted)))

\* fileEmbeddings.slice(0, topN)
SliceTop(sorted) == SubSeq(sorted, 1, Min(TopN, Len(sorted)))

\* topFiles: the files of the first topN elements of the sorted list.
TopFiles(list) ==
  LET top == SliceTop(SortBySimilarity(list)) IN [i \in 1..Len(top) |-> top[i].file]


\* ------------------------------- the search step and the rebuild: state

\* Candidate documents, operations that may overlap, document modifications.
MaxDocs == 2
MaxOps == 2
MaxEdits == 1

DocPath(i) == "Notes/" \o ToString(i) \o ".md"
\* getMarkdownFiles().filter(f => f.path.startsWith(folder)), in the store's
\* enumeration order: every document of the model is a candidate.
CandidateFiles == [i \in 1..MaxDocs |-> DocPath(i)]
DocPaths == {DocPath(i) : i \in 1..MaxDocs}
Ops == 1..MaxOps

\* What the embedding provider returns for a text; texts are numbers.
Embedding(text) == <<text, text % 2>>
\* The query of the step, as a text.
QueryText == 2

NoEntry == [has |-> FALSE, embedding |-> <<>>, mtime |-> 0]
Entry(embedding, mtime) == [has |-> TRUE, embedding |-> embedding, mtime |-> mtime]

NoContext == [set |-> FALSE, searchResults |-> <<>>, searchResultsFiles |-> <<>>]

IdleOp ==
  [kind |-> "none", pc |-> "idle", status |-> "none", k |-> 1,
   queryEmbedding |-> <<>>, content |-> 0, list |-> <<>>, topFiles |-> <<>>,
   context |-> NoContext, count |-> 0,
   \* what the operation has done so far, for the claims
   queryCalls |-> 0,
   calls |-> [p \in DocPaths |-> 0],
   fresh |-> [p \in DocPaths |-> "unseen"],
   wrote |-> [p \in DocPaths |-> NoEntry],
   flushed |-> TRUE]

\* The entries the index file can hold when the plugin loads it: none, the
\* embedding of the current content, one of an older content, or a vector
\* of another embedding model.
EntriesAtStart(i) ==
  IF i = 1
  THEN {NoEntry, Entry(Embedding(i), 1), Entry(Embedding(0), 0), Entry(<<1>>, 1)}
  ELSE {NoEntry, Entry(Embedding(i), 1)}

DocsAtStart ==
  [p \in DocPaths |-> [content |-> CHOOSE i \in 1..MaxDocs : DocPath(i) = p, mtime |-> 1]]

IndexFilesAtStart ==
  {f \in [DocPaths -> UNION {EntriesAtStart(i) : i \in 1..MaxDocs}] :
     \A i \in 1..MaxDocs : f[DocPath(i)] \in EntriesAtStart(i)}

\* ----------------------------- the search step and the rebuild: actions

\* The test on the entry alone, whatever its mtime.
IsCacheHitAnyMtime(index, path, mtime) == index[path].has

\* this.embeddingIndex[path] && this.embeddingIndex[path].mtime === file.stat.mtime
IsCacheHit(index, path, mtime) ==
  index[path].has /\ index[path].mtime = mtime

\* Whether the cache holds an entry whose mtime is the document's current one.
HoldsCurrent(index, path, dcs) ==
  IF index[path].has /\ index[path].mtime = dcs[path].mtime THEN "yes" ELSE "no"

Scored(file, queryEmbedding, fileEmbedding) ==
  [file |-> file, similarity |-> cosineSimilarity(queryEmbedding, fileEmbedding)]

\* The for loop of executeSearchStep from candidate op.k on, up to its next
\* await: cache hits are taken synchronously, one after the other; a miss
\* awaits cachedRead; the end of the loop awaits saveEmbeddingIndex.
RECURSIVE SearchLoop(_, _, _)
SearchLoop(op, index, dcs) ==
  IF op.k > Len(CandidateFiles) THEN [op EXCEPT !.pc = "save"]
  ELSE LET file == CandidateFiles[op.k]
           seen == [op EXCEPT !.fresh[file] = HoldsCurrent(index, file, dcs)]
       IN IF IsCacheHit(index, file, dcs[file].mtime)
          THEN SearchLoop([seen EXCEPT !.k = @ + 1,
                             !.list = Append(@, Scored(file, op.queryEmbedding,
                                                       index[file].embedding))],
                          index, dcs)
          ELSE [seen EXCEPT !.pc = "read"]

\* The for loop of rebuildIndexForFolder from candidate op.k on.
RebuildLoop(op) ==
  IF op.k > Len(CandidateFiles) THEN [op EXCEPT !.pc = "save"]
  ELSE [op EXCEPT !.pc = "read"]

\* The operation stops with an exception.  The flush is the last statement
\* of the loop's success path: nothing is flushed here.
Failed(op, file) ==
  [op EXCEPT !.pc = "ended", !.status = "failed",
             !.flushed = \A p \in DocPaths : op.wrote[p].has => file[p] = op.wrote[p]]

\* The user edits a document: new content, new modification time.
ModifyDocument(p) ==
  /\ edits < MaxEdits
  /\ edits' = edits + 1
  /\ docs' = [docs EXCEPT ![p] = [content |-> @.content + 1, mtime |-> @.mtime + 1]]
  /\ UNCHANGED <<callVars, barVars, loadVars, parseVars, execVars, runVars, rankVars, embeddingIndex, indexFile, ops>>

\* executeSearchStep with a query starts: getEmbedding(query) is called.
StartSearch(o) ==
  /\ ops[o].pc = "idle"
  /\ \A q \in Ops : q < o => ops[q].pc # "idle"
  /\ ops' = [ops EXCEPT ![o] = [IdleOp EXCEPT !.kind = "search", !.pc = "embedQuery",
                                  !.status = "running", !.queryCalls = 1]]
  /\ UNCHANGED <<callVars, barVars, loadVars, parseVars, execVars, runVars, rankVars, docs, embeddingIndex, indexFile, edits>>

\* await this.getEmbedding(query) resolves, or rejects (no API key, or the
\* provider fails).
EmbedQuery(o, ok) ==
  /\ ops[o].pc = "embedQuery"
  /\ ops' = [ops EXCEPT ![o] =
       IF ok THEN SearchLoop([@ EXCEPT !.queryEmbedding = Embedding(QueryText)],
                             embeddingIndex, docs)
       ELSE Failed(@, indexFile)]
  /\ UNCHANGED <<callVars, barVars, loadVars, parseVars, execVars, runVars, rankVars, docs, embeddingIndex, indexFile, edits>>

\* rebuildIndexForFolder starts.
StartRebuild(o) ==
  /\ ops[o].pc = "idle"
  /\ \A q \in Ops : q < o => ops[q].pc # "idle"
  /\ ops' = [ops EXCEPT ![o] = RebuildLoop([IdleOp EXCEPT !.kind = "rebuild",
                                              !.status = "running"])]
  /\ UNCHANGED <<callVars, barVars, loadVars, parseVars, execVars, runVars, rankVars, docs, embeddingIndex, indexFile, edits>>

\* await cachedRead(file) resolves with the document's content, and
\* getEmbedding(content) is called; or the read rejects.
ReadCandidate(o, ok) ==
  /\ ops[o].pc = "read"
  /\ LET file == CandidateFiles[ops[o].k] IN
     ops' = [ops EXCEPT ![o] =
       IF ok THEN [@ EXCEPT !.pc = "embed", !.content = docs[file].content,
                            !.calls[file] = @ + 1]
       ELSE Failed(@, indexFile)]
  /\ UNCHANGED <<callVars, barVars, loadVars, parseVars, execVars, runVars, rankVars, docs, embeddingIndex, indexFile, edits>>

\* await getEmbedding(content) resolves: the entry is written with the
\* mtime the file has now, and the loop goes on; or the call rejects.
EmbedCandidate(o, ok) ==
  /\ ops[o].pc = "embed"
  /\ LET file == CandidateFiles[ops[o].k]
         fileEmbedding == Embedding(ops[o].content)
         entry == Entry(fileEmbedding, docs[file].mtime)
         index == [embeddingIndex EXCEPT ![file] = entry]
         wrote == [ops[o] EXCEPT !.wrote[file] = entry, !.k = @ + 1]
     IN IF ~ok
        THEN /\ ops' = [ops EXCEPT ![o] = Failed(@, indexFile)]
             /\ UNCHANGED embeddingIndex
        ELSE /\ embeddingIndex' = index
             /\ ops' = [ops EXCEPT ![o] =
                  IF ops[o].kind = "search"
                  THEN SearchLoop([wrote EXCEPT !.list =
                                     Append(@, Scored(file, ops[o].queryEmbedding,
                                                      fileEmbedding))],
                                  index, docs)
                  ELSE RebuildLoop([wrote EXCEPT !.count = @ + 1])]
  /\ UNCHANGED <<callVars, barVars, loadVars, parseVars, execVars, runVars, rankVars, docs, indexFile, edits>>

\* await this.saveEmbeddingIndex() resolves: the file holds the index as it
\* is now.  The search step then sorts, slices and awaits the reads of the
\* top files; the rebuild returns its count.  Or the write rejects.
SaveEmbeddingIndex(o, ok) ==
  /\ ops[o].pc = "save"
  /\ LET op == ops[o] IN
     IF ~ok
     THEN /\ ops' = [ops EXCEPT ![o] = Failed(op, indexFile)]
          /\ UNCHANGED indexFile
     ELSE /\ indexFile' = embeddingIndex
          /\ ops' = [ops EXCEPT ![o] =
               IF op.kind = "search"
               THEN [op EXCEPT !.pc = "readTop", !.topFiles = TopFiles(op.list)]
               ELSE [op EXCEPT !.pc = "ended", !.status = "ok",
                       !.flushed = \A p \in DocPaths :
                           op.wrote[p].has => embeddingIndex[p] = op.wrote[p]]]
  /\ UNCHANGED <<callVars, barVars, loadVars, parseVars, execVars, runVars, rankVars, docs, embeddingIndex, edits>>

\* await Promise.all(topFiles.map(cachedRead)) resolves: the context gets
\* the contents and the files; or a read rejects.
ReadTopFiles(o, ok) ==
  /\ ops[o].pc = "readTop"
  /\ LET op == ops[o] IN
     ops' = [ops EXCEPT ![o] =
       IF ok
       THEN [op EXCEPT !.pc = "ended", !.status = "ok",
               !.flushed = \A p \in DocPaths :
                   op.wrote[p].has => indexFile[p] = op.wrote[p],
               !.context = [set |-> TRUE,
                            searchResults |-> [i \in 1..Len(op.topFiles) |->
                                                 docs[op.topFiles[i]].content],
                            searchResultsFiles |-> op.topFiles]]
       ELSE Failed(op, indexFile)]
  /\ UNCHANGED <<callVars, barVars, loadVars, parseVars, execVars, runVars, rankVars, docs, embeddingIndex, indexFile, edits>>

\* loadEmbeddingIndex: await adapter.exists(embeddingIndexPath) resolves.
\* The file exists once an index with entries has been saved.
LoadIndexExists ==
  /\ indexLoad.pc = "exists"
  /\ indexLoad' = [indexLoad EXCEPT !.pc =
                      IF \E p \in DocPaths : indexFile[p].has THEN "read" ELSE "done"]
  /\ UNCHANGED <<callVars, barVars, parseVars, execVars, runVars, rankVars, searchVars>>

\* loadEmbeddingIndex: await adapter.read(embeddingIndexPath) resolves and
\* this.embeddingIndex = JSON.parse(data) replaces the index in memory; or
\* the read rejects.
LoadIndexRead(ok) ==
  /\ indexLoad.pc = "read"
  /\ indexLoad' = [indexLoad EXCEPT !.pc = "done"]
  /\ embeddingIndex' = IF ok THEN indexFile ELSE embeddingIndex
  /\ UNCHANGED <<callVars, barVars, parseVars, execVars, runVars, rankVars, docs, indexFile, ops, edits>>

SearchNext ==
  \/ \E p \in DocPaths : ModifyDocument(p)
  \/ \E o \in Ops : StartSearch(o)
  \/ \E o \in Ops : StartRebuild(o)
  \/ \E o \in Ops, ok \in BOOLEAN : EmbedQuery(o, ok)
  \/ \E o \in Ops, ok \in BOOLEAN : ReadCandidate(o, ok)
  \/ \E o \in Ops, ok \in BOOLEAN : EmbedCandidate(o, ok)
  \/ \E o \in Ops, ok \in BOOLEAN : SaveEmbeddingIndex(o, ok)
  \/ \E o \in Ops, ok \in BOOLEAN : ReadTopFiles(o, ok)

\* The start of the plugin: onload has called loadEmbeddingIndex without
\* awaiting it, and the startup flows and the commands run meanwhile.
StartupNext ==
  \/ LoadIndexExists
  \/ \E ok \in BOOLEAN : LoadIndexRead(ok)
  \/ SearchNext


\* ---------------------------------------------- the ranking, on its own

\* Candidates of one search step: more than topN.
MaxCands == 11

\* The vectors a candidate's embedding is drawn from: one at an angle to the
\* query's, one of another length (cached under another model).
CandidateVectors == {<<1, 1>>, <<1>>}

\* cachedRead of the candidate with number file.
CandidateText(file) == 100 + file

\* The loop of executeSearchStep pushes { file, similarity } for the next
\* candidate, whose embedding is vec.
PushCandidate(vec) ==
  /\ ~context.set
  /\ Len(fileEmbeddings) < MaxCands
  /\ fileEmbeddings' = Append(fileEmbeddings,
        Scored(Len(fileEmbeddings) + 1, Embedding(QueryText), vec))
  /\ UNCHANGED <<callVars, barVars, loadVars, parseVars, execVars, runVars, searchVars, context>>

\* After the loop: sort, slice, read the top files, fill the context.
RankAndRead ==
  /\ ~context.set
  /\ LET topFiles == TopFiles(fileEmbeddings) IN
     context' = [set |-> TRUE,
                 searchResults |-> [i \in 1..Len(topFiles) |-> CandidateText(topFiles[i])],
                 searchResultsFiles |-> topFiles]
  /\ UNCHANGED <<callVars, barVars, loadVars, parseVars, execVars, runVars, searchVars, fileEmbeddings>>

RankNext ==
  \/ \E vec \in CandidateVectors : PushCandidate(vec)
  \/ RankAndRead


\* ------------------------------------------- the parser applied to texts

\* Lines below the steps: line of a text.
MaxStepLines == 4

\* The one path of the vault a promptFile can name: it is a file.
ParseKinds == [p \in {"P.md"} |-> "file"]

\* How a text begins: nothing, a blank line, a comment line, the header
\* (in any case, with any white space around it), another word.
TextHeads ==
  {<<>>, <<BlankLine>>, <<CommentLine>>, <<Word("autoflow")>>,
   <<BlankLine, Word("autoflow")>>, <<Word("hello")>>}

\* The top-level keys of a text: none, or name, description and steps:
TopLevels ==
  {<<>>, <<KV("name", "n"), KVQuoted("description", "d"), KV("steps", "")>>}

\* The lines a text can carry below steps:
StepLineChoices ==
  {KV("type", "search"), KV("type", "transform"), KV("type", "write"),
   KV("type", "other"),
   KVForm("sourceFolder", "Notes", "dash"),
   KVForm("prompt", "P", "dash"), KVQuoted("prompt", ""),
   KVForm("promptFile", "P.md", "dash"),
   KVForm("targetFile", "o.md", "dash")}

\* parseFlowDefinition has not been called on the text yet.
NotParsed == ParseError("<not called>")

\* The number of lines of t below its first steps: line; -1 without one.
LinesBelowSteps(t) ==
  LET at == {k \in 1..Len(t) : IsStepsLine(t[k])} IN
  IF at = {} THEN -1
  ELSE Len(t) - (CHOOSE k \in at : \A m \in at : k <= m)

\* The text grows by one line below steps:
AppendStepLine(line) ==
  /\ definition = NotParsed
  /\ LinesBelowSteps(inputText) >= 0
  /\ LinesBelowSteps(inputText) < MaxStepLines
  /\ inputText' = Append(inputText, line)
  /\ UNCHANGED <<callVars, barVars, loadVars, runVars, searchVars, rankVars, execVars, definition>>

\* parseFlowDefinition(text, app)
ParseText ==
  /\ definition = NotParsed
  /\ definition' = parseFlowDefinition(inputText, ParseKinds)
  /\ UNCHANGED <<callVars, barVars, loadVars, runVars, searchVars, rankVars, execVars, inputText>>

ParseNext ==
  \/ \E line \in StepLineChoices : AppendStepLine(line)
  \/ ParseText


\* ------------------------------------------------- texts and path strings

\* A text is a sequence of pieces; a piece is the characters from + 1 .. to
\* of a source string.  The empty text is the empty sequence.
Whole(src, len) ==
  IF len = 0 THEN <<>> ELSE <<[src |-> src, from |-> 0, to |-> len]>>

\* "\n\n" and "\n\n---\n\n"
BlankLineBreak == Whole("\\n\\n", 2)
PromptSeparator == Whole("\\n\\n---\\n\\n", 7)

\* text.length
RECURSIVE TextLen(_)
TextLen(t) ==
  IF t = <<>> THEN 0 ELSE (Head(t).to - Head(t).from) + TextLen(Tail(t))

\* text.substring(0, n)
RECURSIVE Substring(_, _)
Substring(t, n) ==
  IF t = <<>> \/ n <= 0 THEN <<>>
  ELSE LET piece == Head(t)
           len == piece.to - piece.from
       IN IF len <= n THEN <<piece>> \o Substring(Tail(t), n - len)
          ELSE <<[piece EXCEPT !.to = piece.from + n]>>

\* texts.join('\n\n') from the i-th text on
RECURSIVE JoinFrom(_, _)
JoinFrom(texts, i) ==
  IF i > Len(texts) THEN <<>>
  ELSE IF i = Len(texts) THEN texts[i]
  ELSE texts[i] \o BlankLineBreak \o JoinFrom(texts, i + 1)

\* substring(0, 8000)
CorpusLimit == 8000

\* A path string as its sequence of character runs, cut so that every
\* prefix the model asks about ends between two runs.
Chars(s) ==
  CASE s = "Notes" -> <<"Notes">>
    [] s = "Out/{{date}}.md" -> <<"Out", "/", "{{date}}", ".md">>
    [] s = "o.md" -> <<"o.md">>
    [] s = "P.md" -> <<"P.md">>

\* path.startsWith(prefix)
StartsWith(path, prefix) ==
  Len(prefix) <= Len(path) /\ SubSeq(path, 1, Len(prefix)) = prefix

\* s.replace(from, to): the first occurrence only
ReplaceFirst(path, old, new) ==
  LET at == {k \in 1..Len(path) : path[k] = old} IN
  IF at = {} THEN path
  ELSE [path EXCEPT ![CHOOSE k \in at : \A m \in at : k <= m] = new]

\* s.replaceAll(from, to): every occurrence
ReplaceAll(path, old, new) ==
  [k \in 1..Len(path) |-> IF path[k] = old THEN new ELSE path[k]]

\* executeWriteStep: step.targetFile.replace('{{date}}', getLocalYYYYMMDD(new Date()))
ResolveTargetFile(targetFile, day) ==
  ReplaceFirst(targetFile, "{{date}}", getLocalYYYYMMDD(day))

\* targetFile.substring(0, targetFile.lastIndexOf('/')): lastIndexOf is -1
\* without a slash, and substring(0, -1) is the empty string.
DirectoryPath(path) ==
  LET at == {k \in 1..Len(path) : path[k] = "/"} IN
  IF at = {} THEN <<>>
  ELSE SubSeq(path, 1, (CHOOSE k \in at : \A m \in at : k >= m) - 1)


\* ------------------------------------------ the three step kinds: state

\* Steps of the flow one call of runSteps executes.
MaxSteps == 4

\* The documents of the vault, as path strings cut into runs.
NotesA == <<"Notes", "/", "a.md">>
NotesB == <<"Notes", "/", "b.md">>
Notes2C == <<"Notes", "2", "/", "c.md">>
OutDated == <<"Out", "/", getLocalYYYYMMDD(1), ".md">>
RootO == <<"o.md">>
PromptPath == <<"P.md">>
OutFolder == <<"Out">>

\* The order in which the store enumerates its documents.
MarkdownOrder == <<NotesA, NotesB, Notes2C, OutDated, RootO, PromptPath>>
VaultPaths == {MarkdownOrder[i] : i \in 1..Len(MarkdownOrder)}

Doc(content) == [exists |-> TRUE, content |-> content]
NoDoc == [exists |-> FALSE, content |-> <<>>]

\* A key of the context object: absent, or present with a value.
Absent == [has |-> FALSE, val |-> <<>>]
Present(val) == [has |-> TRUE, val |-> val]

\* const context = {}
EmptyContext ==
  [searchResults |-> Absent, searchResultsFiles |-> Absent, transformResult |-> Absent]

\* The documents under Notes and beside it when the call starts: lengths
\* chosen so that the joined texts end on, beyond, or below the limit, and
\* so that the limit falls inside a document or inside a separator.
NotesAtStart ==
  {[a |-> Doc(Whole("a", 5000)), b |-> Doc(Whole("b", 2998)), c |-> Doc(Whole("c", 10))],
   [a |-> Doc(Whole("a", 5000)), b |-> Doc(Whole("b", 2999)), c |-> Doc(Whole("c", 10))],
   [a |-> Doc(Whole("a", 7999)), b |-> Doc(Whole("b", 2998)), c |-> Doc(Whole("c", 10))],
   [a |-> Doc(<<>>), b |-> Doc(Whole("b", 2998)), c |-> Doc(Whole("c", 10))],
   [a |-> NoDoc, b |-> NoDoc, c |-> NoDoc]}

\* The write target in the root when the call starts.
TargetsAtStart == {NoDoc, Doc(Whole("old", 4))}

VaultFilesAtStart ==
  {[p \in VaultPaths |->
      IF p = NotesA THEN n.a
      ELSE IF p = NotesB THEN n.b
      ELSE IF p = Notes2C THEN n.c
      ELSE IF p = RootO THEN o
      ELSE IF p = PromptPath THEN Doc(Whole("prompt file", 20))
      ELSE NoDoc] : n \in NotesAtStart, o \in TargetsAtStart}

FoldersAtStart == {{}, {OutFolder}}

\* The steps a flow is made of, as the parser returns them.
SearchAll == [EmptyStep EXCEPT !["type"] = "search", !["sourceFolder"] = "Notes"]
SearchQuery == [SearchAll EXCEPT !["query"] = "q"]
TransformPrompt == [EmptyStep EXCEPT !["type"] = "transform", !["prompt"] = "summarize"]
TransformFile == [EmptyStep EXCEPT !["type"] = "transform", !["promptFile"] = "P.md"]
WriteDated == [EmptyStep EXCEPT !["type"] = "write", !["targetFile"] = "Out/{{date}}.md"]
WriteRoot == [EmptyStep EXCEPT !["type"] = "write", !["targetFile"] = "o.md"]
WriteNoTarget == [EmptyStep EXCEPT !["type"] = "write"]

StepChoices ==
  {SearchAll, SearchQuery, TransformPrompt, TransformFile,
   WriteDated, WriteRoot, WriteNoTarget}

\* The prompt of a step as a text.
PromptText(prompt) == Whole(prompt, 9)

\* The text the n-th completion call returns when it returns one.
Reply(n) == Whole("reply " \o ToString(n), 50)

\* The embedding the provider returns for the document at path.
PathVector(path) == IF path = NotesA THEN <<1, 1>> ELSE <<2, 0>>

NoCalls == [chat |-> <<>>, embed |-> 0, saves |-> 0]
NoFlow == [pc |-> "running", steps |-> <<>>]


\* ---------------------------------------- the three step kinds: actions

\* getAbstractFileByPath over the documents and the folders of the vault.
EntryKinds(docsNow, foldersNow) ==
  [p \in {q \in VaultPaths : docsNow[q].exists} \cup foldersNow |->
     IF p \in foldersNow THEN "folder" ELSE "file"]

\* this.app.vault.getMarkdownFiles()
getMarkdownFiles(docsNow) == SelectSeq(MarkdownOrder, LAMBDA p : docsNow[p].exists)

\* No filter: every document of the vault is a candidate.
SearchCandidatesAll(docsNow, step) == getMarkdownFiles(docsNow)

\* .filter(f => f.path.startsWith(step.sourceFolder))
SearchCandidates(docsNow, step) ==
  SelectSeq(getMarkdownFiles(docsNow),
            LAMBDA f : StartsWith(f, Chars(step["sourceFolder"])))

\* if (!query) ... : the step has a query
HasQuery(step) == Truthy(step["query"])

\* The for loop of runSteps reaches one more step.
LoopReaches(step) ==
  /\ flow.pc = "running"
  /\ Len(flow.steps) < MaxSteps

\* The step has returned or thrown: outcome is "ok", "noop" (returned at
\* once), "nothing" (no usable text) or "threw".
Executed(step, outcome) ==
  [pc |-> IF outcome = "threw" THEN "failed" ELSE "running",
   steps |-> Append(flow.steps, [step |-> step, outcome |-> outcome])]

\* executeSearchStep(step, context).  Without a query: the contents of all
\* candidates, read together.  With a query: the query and the candidates
\* are embedded (the cache starts empty), the index is saved, the top files
\* are read.  ok: no read and no provider call rejects.
ExecuteSearchStep(step, ok) ==
  /\ LoopReaches(step)
  /\ step["type"] = "search"
  /\ LET found == SearchCandidates(vaultFiles, step)
         ranked == TopFiles([i \in 1..Len(found) |->
                      Scored(found[i], Embedding(QueryText), PathVector(found[i]))])
         results == IF HasQuery(step) THEN ranked ELSE found
     IN /\ ok \/ HasQuery(step) \/ Len(found) > 0
        /\ calls' = IF ~HasQuery(step) THEN calls
                    ELSE IF ok THEN [calls EXCEPT !.embed = @ + 1 + Len(found),
                                                  !.saves = @ + 1]
                    ELSE [calls EXCEPT !.embed = @ + 1]
        /\ ctx' = IF ok
                  THEN [ctx EXCEPT
                          !.searchResults =
                             Present([i \in 1..Len(results) |-> vaultFiles[results[i]].content]),
                          !.searchResultsFiles = Present(results)]
                  ELSE ctx
        /\ flow' = Executed(step, IF ok THEN "ok" ELSE "threw")
  /\ UNCHANGED <<callVars, barVars, loadVars, runVars, searchVars, rankVars, parseVars, vaultFiles, folders>>

\* No truncation at all.
TruncateNever(joined) == joined

\* sourceContent.join('\n\n').substring(0, 8000)
Truncate(joined) == Substring(joined, CorpusLimit)

\* `${prompt}\n\n---\n\n${truncatedContent}`
FinalPrompt(prompt, sourceContent) ==
  prompt \o PromptSeparator \o Truncate(JoinFrom(sourceContent, 1))

\* else { new Notice('Transform step returned no result.') }: the context
\* is left as it is.
NoResult(cx) == cx

\* Never returns early.
NoSourceContentNever(sourceContent) == FALSE

\* if (sourceContent.length === 0)
NoSourceContent(sourceContent) == Len(sourceContent) = 0

\* executeTransformStep(step, context).  outcome is what happens on the way:
\* "text" (the completion returns a text), "nothing" (it returns no usable
\* text), "rejects" (the completion call rejects), "readFails" (the read
\* of the prompt file rejects).
ExecuteTransformStep(step, outcome) ==
  /\ LoopReaches(step)
  /\ step["type"] = "transform"
  /\ LET sourceContent == IF ctx.searchResults.has THEN ctx.searchResults.val ELSE <<>>
         kinds == EntryKinds(vaultFiles, folders)
         fromFile == Truthy(step["promptFile"])
         promptPath == Chars(step["promptFile"])
         prompt == IF fromFile THEN vaultFiles[promptPath].content
                   ELSE PromptText(step["prompt"])
         n == Len(calls.chat) + 1
     IN IF NoSourceContent(sourceContent)
        THEN /\ outcome = "text"
             /\ flow' = Executed(step, "noop")
             /\ UNCHANGED <<ctx, calls>>
        ELSE IF fromFile /\ getAbstractFileByPath(kinds, promptPath) # "file"
        THEN /\ outcome = "text"
             /\ flow' = Executed(step, "threw")
             /\ UNCHANGED <<ctx, calls>>
        ELSE IF outcome = "readFails"
        THEN /\ fromFile
             /\ flow' = Executed(step, "threw")
             /\ UNCHANGED <<ctx, calls>>
        ELSE /\ calls' = [calls EXCEPT !.chat = Append(@, FinalPrompt(prompt, sourceContent))]
             /\ ctx' = IF outcome = "text"
                       THEN [ctx EXCEPT !.transformResult = Present(Reply(n))]
                       ELSE IF outcome = "nothing" THEN NoResult(ctx)
                       ELSE ctx
             /\ flow' = Executed(step, IF outcome = "text" THEN "ok"
                                       ELSE IF outcome = "nothing" THEN "nothing"
                                       ELSE "threw")
  /\ UNCHANGED <<callVars, barVars, loadVars, runVars, searchVars, rankVars, parseVars, vaultFiles, folders>>

\* vault.create(targetFile, contentToWrite) on a path that exists.
Overwritten(prior, contentToWrite) == contentToWrite

\* adapter.append(targetFile, `\n\n${contentToWrite}`)
Appended(prior, contentToWrite) == prior \o BlankLineBreak \o contentToWrite

\* Writes although there is nothing to write.
NothingToWriteNever(cx) == FALSE

\* if (!contentToWrite) return
NothingToWrite(cx) ==
  ~cx.transformResult.has \/ cx.transformResult.val = <<>>

\* executeWriteStep(step, context).  outcome: "ok", "folderFails"
\* (createFolder rejects), "writeFails" (append or create rejects).
ExecuteWriteStep(step, outcome) ==
  /\ LoopReaches(step)
  /\ step["type"] = "write"
  /\ IF NothingToWrite(ctx)
     THEN /\ outcome = "ok"
          /\ flow' = Executed(step, "noop")
          /\ UNCHANGED <<vaultFiles, folders>>
     ELSE IF step["targetFile"] = Undef
     THEN \* step.targetFile.replace(...) on undefined: a TypeError
          /\ outcome = "ok"
          /\ flow' = Executed(step, "threw")
          /\ UNCHANGED <<vaultFiles, folders>>
     ELSE LET contentToWrite == ctx.transformResult.val
              targetFile == ResolveTargetFile(Chars(step["targetFile"]), clock)
              directoryPath == DirectoryPath(targetFile)
              kinds == EntryKinds(vaultFiles, folders)
              makeFolder == /\ directoryPath # <<>>
                            /\ getAbstractFileByPath(kinds, directoryPath) = "none"
              existingFile == getAbstractFileByPath(kinds, targetFile) # "none"
          IN IF outcome = "folderFails"
             THEN /\ makeFolder
                  /\ flow' = Executed(step, "threw")
                  /\ UNCHANGED <<vaultFiles, folders>>
             ELSE /\ folders' = IF makeFolder THEN folders \cup {directoryPath} ELSE folders
                  /\ flow' = Executed(step, IF outcome = "ok" THEN "ok" ELSE "threw")
                  /\ vaultFiles' =
                       IF outcome # "ok" THEN vaultFiles
                       ELSE IF existingFile
                       THEN [vaultFiles EXCEPT ![targetFile] =
                               Doc(Appended(@.content, contentToWrite))]
                       ELSE [vaultFiles EXCEPT ![targetFile] = Doc(contentToWrite)]
  /\ UNCHANGED <<callVars, barVars, loadVars, runVars, searchVars, rankVars, parseVars, ctx, calls>>

ExecNext ==
  \E step \in StepChoices :
    \/ \E ok \in BOOLEAN : ExecuteSearchStep(step, ok)
    \/ \E outcome \in {"text", "nothing", "rejects", "readFails"} :
         ExecuteTransformStep(step, outcome)
    \/ \E outcome \in {"ok", "folderFails", "writeFails"} :
         ExecuteWriteStep(step, outcome)


\* ------------------------------------------- pure functions, on their own

MaxRuns == 4
MaxDim == 2

\* The character runs a targetFile is made of, and the targetFiles.
TargetRuns == {"{{date}}", "/", "Log", ".md"}
TargetFiles == UNION {[1..n -> TargetRuns] : n \in 1..MaxRuns}

\* The vectors handed to cosineSimilarity.
Vectors == UNION {[1..n -> {-1, 0, 1}] : n \in 0..MaxDim}

NoCall == [fn |-> "none", targetFile |-> <<>>, day |-> 1, vecA |-> <<>>, vecB |-> <<>>]
NotReturned == [returned |-> FALSE, path |-> <<>>, sim |-> Similarity(0, 1)]

TargetCalls ==
  {[NoCall EXCEPT !.fn = "resolveTargetFile", !.targetFile = t, !.day = d] :
     t \in TargetFiles, d \in Days}
SimilarityCalls ==
  {[NoCall EXCEPT !.fn = "cosineSimilarity", !.vecA = a, !.vecB = b] :
     a \in Vectors, b \in Vectors}

\* executeWriteStep resolves the path of its target.
CallResolveTargetFile ==
  /\ callArgs.fn = "resolveTargetFile"
  /\ ~callResult.returned
  /\ callResult' = [NotReturned EXCEPT !.returned = TRUE,
                       !.path = ResolveTargetFile(callArgs.targetFile, callArgs.day)]
  /\ UNCHANGED <<runVars, searchVars, rankVars, parseVars, execVars, barVars, loadVars, callArgs>>

\* cosineSimilarity(vecA, vecB) returns.
CallCosineSimilarity ==
  /\ callArgs.fn = "cosineSimilarity"
  /\ ~callResult.returned
  /\ callResult' = [NotReturned EXCEPT !.returned = TRUE,
                       !.sim = cosineSimilarity(callArgs.vecA, callArgs.vecB)]
  /\ UNCHANGED <<runVars, searchVars, rankVars, parseVars, execVars, barVars, loadVars, callArgs>>

CallNext == CallResolveTargetFile \/ CallCosineSimilarity

\* ------------------------------------------------------------------ claims

\* C1: in runSteps the steps of a flow are executed one at a time in their
\* declared order, and once a step has thrown no later step of that flow is
\* executed: the steps executed so far are 1, 2, .., k, and after a failure
\* at position f they are exactly 1, .., f.
C1_InOrderFailFast ==
  \A r \in Procs :
    /\ runs[r].executed = [k \in 1..Len(runs[r].executed) |-> k]
    /\ Len(runs[r].executed) <= Len(runs[r].def.steps)
    /\ runs[r].failedAt # 0 =>
         /\ Len(runs[r].executed) = runs[r].failedAt
         /\ runs[r].pc \in {"logError", "done"}

\* A run of a three-step flow that failed in its second step and has ended.
C1_Witness ==
  \E r \in Procs :
    /\ runs[r].pc = "done"
    /\ Len(runs[r].def.steps) = 3
    /\ runs[r].failedAt = 2
    /\ runs[r].executed = <<1, 2>>

\* C2: over any sequence of startup scans on one date the scheduler executes
\* the steps of a registered flow at most once on that date.
C2_AtMostOncePerDay ==
  \A p \in FlowPaths : \A d \in Days : schedRuns[p][d] <= 1

\* C3: once a scheduled run has ended, the lastRun obtained by parsing the
\* flow's source document again equals today's date.
C3_LastRunIsToday ==
  (runs[0].pc = "done" /\ runs[0].isAutorun) =>
    LET again == parseFlowDefinition(vault[runs[0].file].text, VaultKinds(vault))
    IN again.err = "none" /\ again.lastRun = getLocalYYYYMMDD(scan.today)

\* C4: in one startup scan, a failure while one registered flow is processed
\* never keeps the scheduler from attempting every later path of the registry:
\* when the scan has stopped, no path is left unattempted.
C4_EveryPathAttempted ==
  scan.pc \in {"done", "aborted"} => scan.left = 0

\* C5: whenever a step of a run fails, runSteps appends an entry to the error
\* log, emits the failure notice and returns normally.
C5_FailureLoggedNoThrow ==
  \A r \in Procs :
    (runs[r].pc = "done" /\ runs[r].failedAt # 0) =>
      runs[r].logged /\ runs[r].noticeFailed /\ ~runs[r].threw

NoDuplicates(seq) ==
  \A j, k \in 1..Len(seq) : seq[j] = seq[k] => j = k

\* C6: the autorun registry never contains the same path twice, in memory
\* and as saved, whatever the interleaving of manual and scheduled runs.
C6_RegistryDuplicateFree ==
  NoDuplicates(settings.autorunFlows) /\ NoDuplicates(dataFile.autorunFlows)

\* Two manual runs of the same autorun flow are in flight together, the path
\* was not registered when the session started, and it is registered now.
C6_Witness ==
  /\ runs[1].pc \in {"saveSettings", "steps"} /\ runs[2].pc \in {"saveSettings", "steps"}
  /\ runs[1].file = "A.md" /\ runs[2].file = "A.md"
  /\ runs[1].registered /\ ~runs[2].registered
  /\ settings.autorunFlows = <<"A.md">>

\* C7: after a manually triggered run of a flow that declares autorun, the
\* flow's source path is in the autorun registry, on both manual entry points.
C7_ManualRunRegisters ==
  \A r \in Manual :
    (runs[r].pc = "done" /\ runs[r].def.err = "none" /\ Truthy(runs[r].def.autorun)) =>
      Includes(settings.autorunFlows, runs[r].file)

\* C8: in a search step with a query, a candidate whose cache entry has the
\* document's current mtime gets no embedding call and its entry is not
\* written; any other candidate gets exactly one embedding call and its
\* entry is overwritten with the vector returned and the current mtime; the
\* query is embedded exactly once.
C8_CallsOfStep(op) ==
  /\ op.queryCalls = 1
  /\ \A j \in 1..MaxDocs :
       LET p == CandidateFiles[j] IN
       /\ op.fresh[p] = "unseen" => j >= op.k /\ op.calls[p] = 0 /\ ~op.wrote[p].has
       /\ op.fresh[p] = "yes" => j < op.k /\ op.calls[p] = 0 /\ ~op.wrote[p].has
       /\ op.fresh[p] = "no" => /\ op.calls[p] <= 1
                                /\ op.wrote[p].has => op.calls[p] = 1
                                /\ j < op.k => op.calls[p] = 1 /\ op.wrote[p].has
  /\ op.status = "ok" => \A p \in DocPaths : op.fresh[p] # "unseen"

C8_EntryWritten ==
  \A p \in DocPaths :
    embeddingIndex'[p] # embeddingIndex[p] =>
      \E o \in Ops :
        /\ ops[o].pc = "embed" /\ CandidateFiles[ops[o].k] = p
        /\ ops[o].kind = "search" => ops[o].fresh[p] = "no"
        /\ embeddingIndex'[p] = Entry(Embedding(ops[o].content), docs[p].mtime)
        /\ ops'[o].wrote[p] = embeddingIndex'[p]

C8_CacheReuse ==
  /\ [](\A o \in Ops : ops[o].kind = "search" => C8_CallsOfStep(ops[o]))
  /\ [][C8_EntryWritten]_vars

\* A search step has ended well with a candidate reused and one embedded anew.
C8_Witness ==
  \E o \in Ops :
    /\ ops[o].kind = "search" /\ ops[o].status = "ok"
    /\ \E p, q \in DocPaths :
         /\ ops[o].fresh[p] = "yes" /\ ops[o].calls[p] = 0
         /\ ops[o].fresh[q] = "no" /\ ops[o].calls[q] = 1
         /\ embeddingIndex[q] = ops[o].wrote[q]

\* C9: whenever a search step with a query or a rebuild has ended, whether
\* it succeeded or failed part-way, the index file holds every entry the
\* operation wrote to the in-memory index.
C9_EveryBatchFlushed ==
  \A o \in Ops : ops[o].pc = "ended" => ops[o].flushed

SimOf(file) == fileEmbeddings[file].similarity
RanksAbove(f, g) ==
  \/ SimLess(SimOf(g), SimOf(f))
  \/ ~SimLess(SimOf(f), SimOf(g)) /\ f < g

\* C10: a search step with a query puts into searchResultsFiles the
\* min(10, n) candidates of highest similarity, by descending similarity, ties
\* in enumeration order, and searchResults holds their contents in that order.
C10_TopTenRanked ==
  context.set =>
    LET n == Len(fileEmbeddings)
        files == context.searchResultsFiles
        m == Len(files)
    IN /\ m <= 10 /\ m = Min(10, n)
       /\ \A a \in 1..m : files[a] \in 1..n
       /\ \A a, b \in 1..m : a < b => RanksAbove(files[a], files[b])
       /\ \A f \in 1..n : (\A a \in 1..m : files[a] # f) =>
            \A a \in 1..m : RanksAbove(files[a], f)
       /\ context.searchResults = [a \in 1..m |-> CandidateText(files[a])]

\* Eleven candidates were ranked: ten are kept, not in enumeration order,
\* and the one left out ties with the last one kept.
C10_Witness ==
  /\ context.set
  /\ Len(fileEmbeddings) = 11
  /\ Len(context.searchResultsFiles) = 10
  /\ context.searchResultsFiles[1] > context.searchResultsFiles[2]
  /\ \E f \in 1..11 :
       /\ \A a \in 1..10 : context.searchResultsFiles[a] # f
       /\ ~SimLess(SimOf(f), SimOf(context.searchResultsFiles[10]))


\* The step the call has just executed, with its outcome (in a step of the
\* behaviour in which the call executes a step).
StepTaken == Len(flow'.steps) = Len(flow.steps) + 1
TakenStep == flow'.steps[Len(flow'.steps)]
LastStep == flow.steps[Len(flow.steps)]

\* C11: a search step without a query sets searchResultsFiles to exactly the
\* documents whose path starts with sourceFolder, in the store's enumeration
\* order, and searchResults to their contents, file by file; it makes no
\* embedding call and does not touch the embedding cache.
C11_Effect ==
  (StepTaken /\ TakenStep.step["type"] = "search"
     /\ ~Truthy(TakenStep.step["query"]) /\ TakenStep.outcome = "ok") =>
    LET prefix == Chars(TakenStep.step["sourceFolder"])
        expected == SelectSeq(MarkdownOrder,
                      LAMBDA p : vaultFiles[p].exists /\ StartsWith(p, prefix))
    IN /\ ctx'.searchResultsFiles = Present(expected)
       /\ ctx'.searchResults.has
       /\ Len(ctx'.searchResults.val) = Len(expected)
       /\ \A i \in 1..Len(expected) :
            ctx'.searchResults.val[i] = vaultFiles[expected[i]].content
       /\ calls' = calls
       /\ embeddingIndex' = embeddingIndex /\ indexFile' = indexFile

C12_OnlyInsideFolder ==
  ctx.searchResultsFiles.has =>
    \A i \in 1..Len(ctx.searchResultsFiles.val) :
      StartsWith(ctx.searchResultsFiles.val[i], Chars("Notes") \o <<"/">>)

\* C13: a transform step whose input searchResults is absent or empty makes
\* no completion call, leaves every key of the context unchanged and does
\* not fail: the loop goes on to the following steps.
C13_Effect ==
  (StepTaken /\ TakenStep.step["type"] = "transform"
     /\ (~ctx.searchResults.has \/ ctx.searchResults.val = <<>>)) =>
    /\ calls' = calls
    /\ ctx' = ctx
    /\ flow'.pc = "running"

C13_EmptyInputIsSoft == [][C13_Effect]_vars

\* A transform step ran on an empty searchResults and one on an absent one,
\* and the call went on to execute a further step.
C13_Witness ==
  /\ Len(flow.steps) = 4
  /\ flow.steps[1].step["type"] = "transform" /\ flow.steps[1].outcome = "noop"
  /\ flow.steps[2] = [step |-> SearchAll, outcome |-> "ok"]
  /\ ctx.searchResults = Present(<<>>)
  /\ flow.steps[3].step["type"] = "transform" /\ flow.steps[3].outcome = "noop"
  /\ flow.steps[4].step["type"] = "write"
  /\ calls.chat = <<>>

\* C14: after a transform step in which the provider returned no usable
\* text, transformResult is unset in the context.
C14_NoTextLeavesUnset ==
  (flow.steps # <<>> /\ LastStep.step["type"] = "transform"
     /\ LastStep.outcome = "nothing") =>
    ~ctx.transformResult.has

\* C15: a write step executed while transformResult is unset or empty
\* creates no document and no folder, modifies no document and raises no
\* error, whatever its targetFile.
C15_Effect ==
  (StepTaken /\ TakenStep.step["type"] = "write"
     /\ (~ctx.transformResult.has \/ ctx.transformResult.val = <<>>)) =>
    /\ vaultFiles' = vaultFiles
    /\ folders' = folders
    /\ flow'.pc = "running"
    /\ ctx' = ctx /\ calls' = calls

C15_NothingToWriteIsNoOp == [][C15_Effect]_vars

\* Write steps with a dated target in a folder that does not exist, with a
\* target in the root and with no target have all returned with nothing
\* to write.
C15_Witness ==
  /\ Len(flow.steps) = 3
  /\ \A i \in 1..3 : flow.steps[i].outcome = "noop"
  /\ {flow.steps[i].step : i \in 1..3} = {WriteDated, WriteRoot, WriteNoTarget}
  /\ folders = {}

IsPrefix(a, b) == Len(a) <= Len(b) /\ SubSeq(b, 1, Len(a)) = a

\* The path a write step names on the day of the call.
TargetOf(step) ==
  IF step = WriteRoot THEN RootO ELSE OutDated

\* C16: a write step never overwrites: an existing target gets its prior
\* content followed by two newlines and the transform output, a missing one
\* is created with exactly the transform output, and no document ever
\* loses or changes content it had.
C16_Effect ==
  /\ \A p \in VaultPaths :
       vaultFiles[p].exists =>
         /\ vaultFiles'[p].exists
         /\ IsPrefix(vaultFiles[p].content, vaultFiles'[p].content)
  /\ (StepTaken /\ TakenStep.step["type"] = "write" /\ TakenStep.outcome = "ok") =>
       LET target == TargetOf(TakenStep.step)
           output == ctx.transformResult.val
       IN /\ vaultFiles'[target].exists
          /\ vaultFiles'[target].content =
               IF vaultFiles[target].exists
               THEN vaultFiles[target].content \o BlankLineBreak \o output
               ELSE output
          /\ \A p \in VaultPaths \ {target} : vaultFiles'[p] = vaultFiles[p]

C16_WriteOnlyAppends == [][C16_Effect]_vars

\* The target in the root did not exist: one write step created it with
\* the reply, the next one appended the reply to it.
C16_Witness ==
  /\ vaultFiles[RootO].content = Reply(1) \o BlankLineBreak \o Reply(1)
  /\ Len(flow.steps) = 4
  /\ flow.steps[4] = [step |-> WriteRoot, outcome |-> "ok"]

\* A text is the first characters of another.
IsCharPrefix(a, b) ==
  /\ Len(a) <= Len(b)
  /\ \A k \in 1..(Len(a) - 1) : a[k] = b[k]
  /\ a # <<>> =>
       /\ a[Len(a)].src = b[Len(a)].src
       /\ a[Len(a)].from = b[Len(a)].from
       /\ a[Len(a)].to <= b[Len(a)].to

SearchTransformWrite ==
  /\ Len(flow.steps) = 3
  /\ flow.steps[1] = [step |-> SearchAll, outcome |-> "ok"]
  /\ flow.steps[2].step = TransformPrompt /\ flow.steps[2].outcome # "noop"
  /\ flow.steps[3].step \in {WriteDated, WriteRoot}

\* C17: in a flow search (no query), transform (prompt P), write, the one
\* completion call receives exactly P, the separator, and the first 8000
\* characters of the source texts joined in order by a blank line; the
\* corpus part is never longer than 8000 characters; and the write target
\* receives the text the completion call returned.
C17_EndToEnd ==
  SearchTransformWrite =>
    LET joined == JoinFrom(ctx.searchResults.val, 1)
        sent == calls.chat[1]
        corpus == SubSeq(sent, 3, Len(sent))
        target == vaultFiles[TargetOf(flow.steps[3].step)]
    IN /\ Len(calls.chat) = 1
       /\ SubSeq(sent, 1, 2) = PromptText("summarize") \o PromptSeparator
       /\ IsCharPrefix(corpus, joined)
       /\ TextLen(corpus) = Min(8000, TextLen(joined))
       /\ TextLen(corpus) <= 8000
       /\ flow.steps[3].outcome = "ok" =>
            /\ ctx.transformResult = Present(Reply(1))
            /\ target.exists
            /\ \/ target.content = Reply(1)
               \/ target.content = Whole("old", 4) \o BlankLineBreak \o Reply(1)

\* The flow has run to its end over texts that are 8001 characters when
\* joined up to the second: the corpus sent stops one character short of
\* the second text's end, and the dated target holds the reply.
C17_Witness ==
  /\ SearchTransformWrite
  /\ flow.steps[3] = [step |-> WriteDated, outcome |-> "ok"]
  /\ calls.chat[1] = PromptText("summarize") \o PromptSeparator
       \o Whole("a", 5000) \o BlankLineBreak \o Whole("b", 2998)
  /\ vaultFiles[NotesB].content = Whole("b", 2999)
  /\ vaultFiles[OutDated].content = Reply(1)

\* C18: for every text whose first line is not autoflow, parseFlowDefinition
\* returns the "not a flow definition" error.
C18_NotAFlowError ==
  (definition # NotParsed
     /\ ~(inputText # <<>> /\ inputText[1] = Word("autoflow"))) =>
    definition.err = "Not a simple Autoflow definition."

\* C19: every transform step of a successfully parsed definition has exactly
\* one of the keys prompt and promptFile given.
C19_ExactlyOnePromptKey ==
  definition.err = "none" =>
    \A i \in 1..Len(definition.steps) :
      definition.steps[i]["type"] = "transform" =>
        (definition.steps[i]["prompt"] # Undef) # (definition.steps[i]["promptFile"] # Undef)

\* C20: every step of a successfully parsed definition has a type among
\* search, transform and write, a search step carries a sourceFolder and a
\* write step a targetFile.
C20_StepsWellFormed ==
  definition.err = "none" =>
    \A i \in 1..Len(definition.steps) :
      LET step == definition.steps[i] IN
      /\ step["type"] \in {"search", "transform", "write"}
      /\ step["type"] = "search" => step["sourceFolder"] # Undef
      /\ step["type"] = "write" => step["targetFile"] # Undef

\* The user picked a document whose parse failed (pickAndRunFlow).
PickFailedStep(r) ==
  /\ runs[r].pc = "idle"
  /\ runs'[r].pc # "idle"
  /\ runs'[r].def.err # "none"

\* The startup scan read a registered document whose parse failed.
ScanFailedStep ==
  /\ scan.pc = "loop"
  /\ scan'.pc = "loop"
  /\ scan'.idx = scan.idx + 1
  /\ scan.idx <= Len(settings.autorunFlows)
  /\ vault[settings.autorunFlows[scan.idx]].exists
  /\ parseFlowDefinition(vault[settings.autorunFlows[scan.idx]].text,
                         VaultKinds(vault)).err # "none"

\* What a parse failure leaves alone: the documents, the registry in memory
\* and on disk, the embedding cache, and the count of scheduled runSteps calls.
ParseFailureFrame ==
  UNCHANGED <<vault, settings, dataFile, embeddingIndex, indexFile, schedRuns>>

C21_NoRunStarts ==
  /\ \A r \in Manual :
        PickFailedStep(r) =>
          /\ runs'[r].noticeInvalid
          /\ runs'[r].pc = "done"
          /\ runs'[r].executed = <<>>
          /\ \A q \in Procs \ {r} : runs'[q] = runs[q]
          /\ ParseFailureFrame
  /\ ScanFailedStep =>
        /\ scan'.invalid = Append(scan.invalid, settings.autorunFlows[scan.idx])
        /\ runs' = runs
        /\ ParseFailureFrame

\* C21: no step of a flow is executed for a document whose parse returned an
\* error: from the manual pick and from the startup scan alike, a parse error
\* leads to the notice and to no runSteps call, and it changes no document,
\* no registry and no cache.
C21_ParseErrorRunsNothing ==
  /\ [](\A r \in Procs :
          runs[r].def.err # "none" =>
            /\ runs[r].pc \in {"idle", "done"}
            /\ runs[r].executed = <<>>
            /\ runs[r].pc = "done" => runs[r].noticeInvalid)
  /\ [][C21_NoRunStarts]_vars

\* A session in which both entry points met the invalid document: the scan
\* showed its notice for A.md and the user picked A.md too.
C21_Witness ==
  /\ Includes(scan.invalid, "A.md")
  /\ \E r \in Manual : runs[r].pc = "done" /\ runs[r].noticeInvalid /\ runs[r].file = "A.md"

\* C22: the path a write step writes to is its targetFile with every
\* occurrence of the token {{date}} replaced by today's local date and every
\* other character unchanged, so the resolved path never contains the token.
C22_EveryDateTokenReplaced ==
  (callArgs.fn = "resolveTargetFile" /\ callResult.returned) =>
    /\ callResult.path =
         ReplaceAll(callArgs.targetFile, "{{date}}", getLocalYYYYMMDD(callArgs.day))
    /\ \A k \in 1..Len(callResult.path) : callResult.path[k] # "{{date}}"

IsZeroVector(vec) == \A k \in 1..Len(vec) : vec[k] = 0

\* C23: cosineSimilarity returns -1 for two vectors of different lengths,
\* also when one of them is a zero vector, and 0 for two vectors of equal
\* length of which at least one is the zero vector.
C23_MismatchBeforeZero ==
  (callArgs.fn = "cosineSimilarity" /\ callResult.returned) =>
    /\ Len(callArgs.vecA) # Len(callArgs.vecB) =>
         callResult.sim.num = -1 /\ callResult.sim.den2 = 1
    /\ (/\ Len(callArgs.vecA) = Len(callArgs.vecB)
        /\ IsZeroVector(callArgs.vecA) \/ IsZeroVector(callArgs.vecB)) =>
         callResult.sim.num = 0

\* cosineSimilarity has returned for a zero vector and a vector of another
\* length.
C23_Witness ==
  /\ callArgs.fn = "cosineSimilarity"
  /\ callResult.returned
  /\ callArgs.vecA = <<0, 0>>
  /\ callArgs.vecB = <<1>>
  /\ callResult.sim.num = -1

IsLastRunLine(line) == line.kind = "kv" /\ line.key = "lastRun"
IsNotLastRunLine(line) == ~IsLastRunLine(line)

\* updateLastRunInFile has rewritten the document of run r in this step.
C24_Effect(r) ==
  LET path == runs[r].filePath
      date == getLocalYYYYMMDD(clock)
      before == parseFlowDefinition(vault[path].text, VaultKinds(vault))
      after == parseFlowDefinition(vault'[path].text, VaultKinds(vault'))
  IN (/\ runs[r].pc = "updateLastRun"
      /\ runs'[r].pc = "done"
      /\ vault[path].exists) =>
       /\ SelectSeq(vault'[path].text, IsNotLastRunLine)
            = SelectSeq(vault[path].text, IsNotLastRunLine)
       /\ Len(SelectSeq(vault'[path].text, IsLastRunLine)) = 1
       /\ after.err = "none"
       /\ after.name = before.name
       /\ after.description = before.description
       /\ after.autorun = before.autorun
       /\ after.steps = before.steps
       /\ after.lastRun = date
       /\ \A q \in FlowPaths \ {path} : vault'[q] = vault[q]

\* C24: updateLastRunInFile changes only the lastRun marker of the flow's
\* source: a lastRun line, whatever its value, is replaced by lastRun: <date>,
\* otherwise that line is inserted before the steps: line; every other line
\* is unchanged, and the rewritten source parses to the same name,
\* description, autorun and steps, with lastRun equal to the date.
C24_OnlyTheMarkerChanges == [][\A r \in Procs : C24_Effect(r)]_vars

\* C25: every entry of the embedding cache, written by a search step or a
\* rebuild, whose mtime equals the document's current modification time holds
\* the embedding of the document's current content, also when the document
\* is modified while the operation awaits the read or the embedding call.
C25_CurrentEntryIsOfCurrentContent ==
  \A p \in DocPaths :
    LET entry == embeddingIndex[p] IN
    (/\ entry.has
     /\ entry.mtime = docs[p].mtime
     /\ \E o \in Ops : ops[o].wrote[p] = entry) =>
      entry.embedding = Embedding(docs[p].content)

\* C26: the persisted embedding index is completely loaded into memory
\* before any search step reads or mutates the index in memory: no search
\* step is in its loop while the load is pending, and no entry an operation
\* wrote is replaced by a load that finishes later.
C26_IndexLoadedBeforeUse ==
  /\ \A o \in Ops :
        (ops[o].kind = "search" /\ ops[o].pc \in {"read", "embed", "save", "readTop"})
          => indexLoad.pc = "done"
  /\ \A o \in Ops, p \in DocPaths : ops[o].wrote[p].has => embeddingIndex[p].has

\* C27: each call of runSteps surfaces exactly one terminal signal, the
\* success notice or the failure notice, never both and never neither, also
\* for a scheduled run whose lastRun rewrite fails after all steps succeeded.
C27_ExactlyOneTerminalNotice ==
  \A r \in Procs :
    (runs[r].pc = "done" /\ runs[r].def.err = "none") =>
      runs[r].noticeFinished # runs[r].noticeFailed

\* C28: every status-bar item created by a run is removed when that run
\* ends, also when two runs overlap and each must remove only its own item:
\* the status bar shows one item for each run in progress and none for a
\* run that has ended.
C28_ItemsLeaveWithTheirRun ==
  \A r \in Procs :
    statusBarItems[r] = IF runs[r].pc \in InTry THEN 1 ELSE 0


\* ---------------------------------------------------------- specifications

\* One session: the startup scan and manual runs, interleaved.  No search
\* operation runs on its own.
Init ==
  /\ clock = 1
  /\ vault \in SessionVaults
  /\ dataFile \in SessionData
  /\ settings = DEFAULT_SETTINGS
  /\ runs = [r \in Procs |-> IdleRun]
  /\ scan = IdleScan
  /\ errorLog = 0
  /\ schedRuns = [p \in FlowPaths |-> [d \in Days |-> 0]]
  /\ docs = DocsAtStart
  /\ indexFile = [p \in DocPaths |-> NoEntry]
  /\ embeddingIndex = indexFile
  /\ ops = [o \in Ops |-> IdleOp]
  /\ edits = 0
  /\ fileEmbeddings = <<>>
  /\ context = NoContext
  /\ inputText = <<>>
  /\ definition = NotParsed
  /\ vaultFiles = [p \in VaultPaths |-> NoDoc]
  /\ folders = {}
  /\ ctx = EmptyContext
  /\ flow = NoFlow
  /\ calls = NoCalls
  /\ callArgs = NoCall
  /\ callResult = NotReturned
  /\ statusBar = NoItem
  /\ statusBarItems = [r \in Procs |-> 0]
  /\ indexLoad = [pc |-> "done"]
Next == SessionNext
Spec == Init /\ [][Next]_vars

\* The scheduler alone, over several application starts and days.
InitSched ==
  /\ clock = 1
  /\ vault \in SchedVaults
  /\ dataFile = SchedData
  /\ settings = DEFAULT_SETTINGS
  /\ runs = [r \in Procs |-> IdleRun]
  /\ scan = IdleScan
  /\ errorLog = 0
  /\ schedRuns = [p \in FlowPaths |-> [d \in Days |-> 0]]
  /\ docs = DocsAtStart
  /\ indexFile = [p \in DocPaths |-> NoEntry]
  /\ embeddingIndex = indexFile
  /\ ops = [o \in Ops |-> IdleOp]
  /\ edits = 0
  /\ fileEmbeddings = <<>>
  /\ context = NoContext
  /\ inputText = <<>>
  /\ definition = NotParsed
  /\ vaultFiles = [p \in VaultPaths |-> NoDoc]
  /\ folders = {}
  /\ ctx = EmptyContext
  /\ flow = NoFlow
  /\ calls = NoCalls
  /\ callArgs = NoCall
  /\ callResult = NotReturned
  /\ statusBar = NoItem
  /\ statusBarItems = [r \in Procs |-> 0]
  /\ indexLoad = [pc |-> "done"]
SpecSched == InitSched /\ [][SchedNext]_vars

\* Search steps and rebuilds, overlapping, with documents edited meanwhile.
\* The index was loaded from its file; no flow runs.
InitSearch ==
  /\ clock = 1
  /\ vault = [p \in FlowPaths |-> NoFile]
  /\ dataFile = DEFAULT_SETTINGS
  /\ settings = DEFAULT_SETTINGS
  /\ runs = [r \in Procs |-> IdleRun]
  /\ scan = IdleScan
  /\ errorLog = 0
  /\ schedRuns = [p \in FlowPaths |-> [d \in Days |-> 0]]
  /\ docs = DocsAtStart
  /\ indexFile \in IndexFilesAtStart
  /\ embeddingIndex = indexFile
  /\ ops = [o \in Ops |-> IdleOp]
  /\ edits = 0
  /\ fileEmbeddings = <<>>
  /\ context = NoContext
  /\ inputText = <<>>
  /\ definition = NotParsed
  /\ vaultFiles = [p \in VaultPaths |-> NoDoc]
  /\ folders = {}
  /\ ctx = EmptyContext
  /\ flow = NoFlow
  /\ calls = NoCalls
  /\ callArgs = NoCall
  /\ callResult = NotReturned
  /\ statusBar = NoItem
  /\ statusBarItems = [r \in Procs |-> 0]
  /\ indexLoad = [pc |-> "done"]
SpecSearch == InitSearch /\ [][SearchNext]_vars

\* The ranking of one search step over any list of candidates.
InitRank ==
  /\ clock = 1
  /\ vault = [p \in FlowPaths |-> NoFile]
  /\ dataFile = DEFAULT_SETTINGS
  /\ settings = DEFAULT_SETTINGS
  /\ runs = [r \in Procs |-> IdleRun]
  /\ scan = IdleScan
  /\ errorLog = 0
  /\ schedRuns = [p \in FlowPaths |-> [d \in Days |-> 0]]
  /\ docs = DocsAtStart
  /\ indexFile = [p \in DocPaths |-> NoEntry]
  /\ embeddingIndex = indexFile
  /\ ops = [o \in Ops |-> IdleOp]
  /\ edits = 0
  /\ fileEmbeddings = <<>>
  /\ context = NoContext
  /\ inputText = <<>>
  /\ definition = NotParsed
  /\ vaultFiles = [p \in VaultPaths |-> NoDoc]
  /\ folders = {}
  /\ ctx = EmptyContext
  /\ flow = NoFlow
  /\ calls = NoCalls
  /\ callArgs = NoCall
  /\ callResult = NotReturned
  /\ statusBar = NoItem
  /\ statusBarItems = [r \in Procs |-> 0]
  /\ indexLoad = [pc |-> "done"]
SpecRank == InitRank /\ [][RankNext]_vars
\* The parser applied to texts.
InitParse ==
  /\ clock = 1
  /\ vault = [p \in FlowPaths |-> NoFile]
  /\ dataFile = DEFAULT_SETTINGS
  /\ settings = DEFAULT_SETTINGS
  /\ runs = [r \in Procs |-> IdleRun]
  /\ scan = IdleScan
  /\ errorLog = 0
  /\ schedRuns = [p \in FlowPaths |-> [d \in Days |-> 0]]
  /\ docs = DocsAtStart
  /\ indexFile = [p \in DocPaths |-> NoEntry]
  /\ embeddingIndex = indexFile
  /\ ops = [o \in Ops |-> IdleOp]
  /\ edits = 0
  /\ fileEmbeddings = <<>>
  /\ context = NoContext
  /\ inputText \in {head \o top : head \in TextHeads, top \in TopLevels}
  /\ definition = NotParsed
  /\ vaultFiles = [p \in VaultPaths |-> NoDoc]
  /\ folders = {}
  /\ ctx = EmptyContext
  /\ flow = NoFlow
  /\ calls = NoCalls
  /\ callArgs = NoCall
  /\ callResult = NotReturned
  /\ statusBar = NoItem
  /\ statusBarItems = [r \in Procs |-> 0]
  /\ indexLoad = [pc |-> "done"]
SpecParse == InitParse /\ [][ParseNext]_vars

\* One call of runSteps executing search, transform and write steps.
InitExec ==
  /\ clock = 1
  /\ vault = [p \in FlowPaths |-> NoFile]
  /\ dataFile = DEFAULT_SETTINGS
  /\ settings = DEFAULT_SETTINGS
  /\ runs = [r \in Procs |-> IdleRun]
  /\ scan = IdleScan
  /\ errorLog = 0
  /\ schedRuns = [p \in FlowPaths |-> [d \in Days |-> 0]]
  /\ docs = DocsAtStart
  /\ indexFile = [p \in DocPaths |-> NoEntry]
  /\ embeddingIndex = indexFile
  /\ ops = [o \in Ops |-> IdleOp]
  /\ edits = 0
  /\ fileEmbeddings = <<>>
  /\ context = NoContext
  /\ inputText = <<>>
  /\ definition = NotParsed
  /\ vaultFiles \in VaultFilesAtStart
  /\ folders \in FoldersAtStart
  /\ ctx = EmptyContext
  /\ flow = NoFlow
  /\ calls = NoCalls
  /\ callArgs = NoCall
  /\ callResult = NotReturned
  /\ statusBar = NoItem
  /\ statusBarItems = [r \in Procs |-> 0]
  /\ indexLoad = [pc |-> "done"]
SpecExec == InitExec /\ [][ExecNext]_vars

\* The pure functions of the plugin, each applied once to any arguments.
InitCall ==
  /\ clock = 1
  /\ vault = [p \in FlowPaths |-> NoFile]
  /\ dataFile = DEFAULT_SETTINGS
  /\ settings = DEFAULT_SETTINGS
  /\ runs = [r \in Procs |-> IdleRun]
  /\ scan = IdleScan
  /\ errorLog = 0
  /\ schedRuns = [p \in FlowPaths |-> [d \in Days |-> 0]]
  /\ docs = DocsAtStart
  /\ indexFile = [p \in DocPaths |-> NoEntry]
  /\ embeddingIndex = indexFile
  /\ ops = [o \in Ops |-> IdleOp]
  /\ edits = 0
  /\ fileEmbeddings = <<>>
  /\ context = NoContext
  /\ inputText = <<>>
  /\ definition = NotParsed
  /\ vaultFiles = [p \in VaultPaths |-> NoDoc]
  /\ folders = {}
  /\ ctx = EmptyContext
  /\ flow = NoFlow
  /\ calls = NoCalls
  /\ callArgs \in TargetCalls \cup SimilarityCalls
  /\ callResult = NotReturned
  /\ statusBar = NoItem
  /\ statusBarItems = [r \in Procs |-> 0]
  /\ indexLoad = [pc |-> "done"]
SpecCall == InitCall /\ [][CallNext]_vars

\* The start of the plugin: the index file holds what earlier sessions saved,
\* the index in memory is the empty object of the field's initialiser, and
\* the load that onload has called is pending.
InitStartup ==
  /\ clock = 1
  /\ vault = [p \in FlowPaths |-> NoFile]
  /\ dataFile = DEFAULT_SETTINGS
  /\ settings = DEFAULT_SETTINGS
  /\ runs = [r \in Procs |-> IdleRun]
  /\ scan = IdleScan
  /\ errorLog = 0
  /\ schedRuns = [p \in FlowPaths |-> [d \in Days |-> 0]]
  /\ docs = DocsAtStart
  /\ indexFile \in IndexFilesAtStart
  /\ embeddingIndex = [p \in DocPaths |-> NoEntry]
  /\ ops = [o \in Ops |-> IdleOp]
  /\ edits = 0
  /\ fileEmbeddings = <<>>
  /\ context = NoContext
  /\ inputText = <<>>
  /\ definition = NotParsed
  /\ vaultFiles = [p \in VaultPaths |-> NoDoc]
  /\ folders = {}
  /\ ctx = EmptyContext
  /\ flow = NoFlow
  /\ calls = NoCalls
  /\ callArgs = NoCall
  /\ callResult = NotReturned
  /\ statusBar = NoItem
  /\ statusBarItems = [r \in Procs |-> 0]
  /\ indexLoad = [pc |-> "exists"]
SpecStartup == InitStartup /\ [][StartupNext]_vars

====
